---- MODULE Spec2Model ----
(***************************************************************************)
(* Model of the drone ground-station backend: the subscriber hub           *)
(* (DroneWebSocketService), the drone manager (DroneManager), the vehicle  *)
(* link (MAVLinkService) and the session/event engine (SessionService).    *)
(***************************************************************************)
EXTENDS Integers, Sequences, FiniteSets, TLC

(***************************************************************************)
(* Bounds of the model.                                                    *)
(***************************************************************************)
MaxChannels == 2
MaxUsers == 2
MaxDrones == 1
MaxLinks == 2
MaxHosts == 1
MaxRegistrations == 2
MaxSessions == 2
MaxTasks == 2
MaxEvents == 3
MaxTicks == 2
MaxWindows == 2

Channels == 1..MaxChannels
Users == 1..MaxUsers
Drones == 1..MaxDrones
Hosts == 1..MaxHosts
SessionIds == 1..MaxSessions

(***************************************************************************)
(* Program constants.                                                      *)
(***************************************************************************)
DEFAULT_REMOTE_PORT == 14551
COMMAND_PORT == 5792
MAV_CMD_COMPONENT_ARM_DISARM == 400
MSG_COMMAND_LONG == 76
MSG_SET_MODE == 11
MSG_HEARTBEAT == 0
MSG_GLOBAL_POSITION_INT == 33
MSG_BATTERY_STATUS == 147
MAGIC_V2 == 253
MAGIC_V1 == 254
MAV_MODE_FLAG_SAFETY_ARMED == 128
EVENT_COOLDOWN_MS == 3000
HEARTBEAT_TIMEOUT_MS == 10000
RECONNECT_INTERVAL_MS == 5000

\* Values standing for JavaScript null / undefined / '' / 0 in the model.
NoUser == 0
NoLink == -1
NoAddress == 0
NoDrone == 0
Singleton == 0

LinkIds == 0..MaxLinks
SrcPorts == {52345}

VARIABLES
    clients,        \* DroneWebSocketService.clients : ws -> ClientInfo
    readyState,     \* ws.readyState of every channel
    droneData,      \* DroneWebSocketService.droneData.position (cached)
    connections,    \* DroneManager.connections : droneId -> DroneConnection
    connOrder,      \* insertion order of the keys of DroneManager.connections
    nextDroneId,    \* DroneManager.nextDroneId
    nextLink,       \* number of MAVLinkService objects created by connectDrone
    links,          \* the MAVLinkService objects (0 is getMAVLinkService())
    crashed,        \* an 'error' event was emitted with no listener
    lastOp,         \* the operation executed by the last step and its inputs
    lastSent,       \* frames sent to every channel by the last step
    lastDatagram,   \* datagrams sent on the UDP sockets by the last step
    lastResult,     \* value returned by the command of the last step
    now,            \* Date.now(), in milliseconds
    activeSessions, \* SessionService.activeSessions : sessionId -> SessionData
    lastEventTimestamps, \* SessionService.lastEventTimestamps
    droneSession,   \* rows of the DroneSession table, by sessionId
    droneEvent,     \* rows of the DroneEvent table, in insertion order
    tasks,          \* suspended async calls of SessionService (at an await)
    wire,           \* the frame last built by the encoder: id, payload, bytes
    decoded,        \* what the decoder's framing made of the frame on the wire
    Drone,          \* rows of the Drone table, in insertion order (id = index)
    registered,     \* the registrations answered with success, in order
    regTasks,       \* POST /user/drone/register requests suspended at an await
    boot,           \* startup of index.ts: the listener and the recovery query
    telemetryBuffer, \* TelemetryService.telemetryBuffer, samples by number
    batchTimeout,   \* TelemetryService.batchTimeout: "null", "pending", "fired"
    flushing,       \* the createMany calls awaited by flushBuffer: their data
    telemetryData,  \* TelemetryData table: rows written of every sample
    nextSample,     \* number of the next sample passed to storeTelemetry
    User            \* rows of the User table, by id: resetPasswordOtp

hubVars == <<clients, readyState, droneData>>
mgrVars == <<connections, connOrder, nextDroneId, nextLink>>
obsVars == <<lastOp, lastSent, lastDatagram, lastResult>>
sessVars == <<now, activeSessions, lastEventTimestamps, droneSession, droneEvent, tasks>>
codecVars == <<wire, decoded>>
bufVars == <<telemetryBuffer, batchTimeout, flushing, telemetryData, nextSample>>
appVars == <<Drone, registered, regTasks, boot>>
vars == <<clients, readyState, droneData, connections, connOrder, nextDroneId,
          nextLink, links, crashed, lastOp, lastSent, lastDatagram, lastResult,
          now, activeSessions, lastEventTimestamps, droneSession, droneEvent, tasks,
          wire, decoded, Drone, registered, regTasks, boot,
          telemetryBuffer, batchTimeout, flushing, telemetryData, nextSample, User>>

(***************************************************************************)
(* Auth collaborator: getUserFromToken decodes the bearer token and looks  *)
(* the user up.  Token t > 0 is the token signed for user t; token 0 is an *)
(* absent or invalid token (jwt.verify throws).                            *)
(***************************************************************************)
Tokens == 0..MaxUsers
AdminUser == MaxUsers
UserIsAdmin(u) == u = AdminUser
TokenError == [ok |-> FALSE, user_id |-> NoUser, is_admin |-> FALSE]
getUserFromToken(t) ==
    IF t \in Users
    THEN [ok |-> TRUE, user_id |-> t, is_admin |-> UserIsAdmin(t)]
    ELSE TokenError

(***************************************************************************)
(* Observation helpers.                                                    *)
(***************************************************************************)
NoSent == [c \in Channels |-> <<>>]
Op(name, ch, user, drone, link, n) ==
    [op |-> name, ch |-> ch, user |-> user, drone |-> drone, link |-> link, n |-> n]
NoOp == Op("init", 0, NoUser, NoDrone, NoLink, 0)

\* A frame as put on a channel; authed records clientInfo.authenticated of
\* the receiving channel at the moment of the send.
Frame(type, re, c, cl) ==
    [type |-> type, re |-> re,
     authed |-> IF c \in DOMAIN cl THEN cl[c].authenticated ELSE FALSE]

CountType(s, type) == Cardinality({i \in 1..Len(s) : s[i].type = type})
CountRe(s, re) == Cardinality({i \in 1..Len(s) : s[i].re = re})

(***************************************************************************)
(* MAVLinkService (vehicle link).  A link record holds the fields of one   *)
(* MAVLinkService object; subDrone/subUser are the droneId and userId      *)
(* captured by the telemetry listener the manager attached to it.          *)
(***************************************************************************)
Protocols == {"udp", "udpin", "tcp"}

NewLink ==
    [exists |-> FALSE, connection |-> "null", connected |-> FALSE,
     remoteAddress |-> NoAddress, remotePort |-> DEFAULT_REMOTE_PORT,
     systemId |-> 0, componentId |-> 0, everRx |-> FALSE,
     rxSysid |-> 0, rxCompid |-> 0,
     armed |-> FALSE, mode |-> "UNKNOWN", battery |-> 100,
     subDrone |-> NoDrone, subUser |-> NoUser]

\* connect(): only udp and udpin create a socket; the bind is asynchronous,
\* so `connected` is left as it was until the 'listening' event.  Any other
\* protocol throws; the catch clears `connected` and emits 'error'.
connect(lk, protocol) ==
    IF protocol \in {"udp", "udpin"}
    THEN [lk |-> [lk EXCEPT !.connection = "binding"], ok |-> TRUE, err |-> FALSE]
    ELSE [lk |-> [lk EXCEPT !.connected = FALSE], ok |-> FALSE, err |-> TRUE]

\* A faulty disconnect() that closes the socket without testing it: on a
\* link with no socket the call throws.
disconnectUnguarded(lk) ==
    [lk EXCEPT !.connection = IF @ = "null" THEN "failed" ELSE "null", !.connected = FALSE]

\* disconnect(): close the socket if there is one, clear `connected`, emit
\* 'disconnected'.
disconnect(lk) == [lk EXCEPT !.connection = "null", !.connected = FALSE]

\* udpServer.on('message'): the peer is (re)learned when no address is stored
\* or the source address differs from the stored one.
\* Not a field of the service: the sysid and compid in the header of the last
\* v2 frame that arrived on the link (rxSysid, rxCompid), kept for the
\* properties.  The service itself never reads these header bytes.
heard(lk, dg) ==
    IF dg.magic = MAGIC_V2 /\ dg.buflen >= 12
    THEN [lk EXCEPT !.rxSysid = dg.sysid, !.rxCompid = dg.compid]
    ELSE lk

learnPeer(lk, host, port) ==
    IF lk.remoteAddress = NoAddress \/ lk.remoteAddress # host
    THEN [lk EXCEPT !.remoteAddress = host, !.remotePort = port, !.everRx = TRUE]
    ELSE [lk EXCEPT !.everRx = TRUE]

modeNames(customMode) ==
    CASE customMode = 0 -> "STABILIZE"
      [] customMode = 1 -> "ACRO"
      [] customMode = 2 -> "ALT_HOLD"
      [] customMode = 3 -> "AUTO"
      [] customMode = 4 -> "GUIDED"
      [] customMode = 5 -> "LOITER"
      [] customMode = 6 -> "RTL"
      [] customMode = 7 -> "CIRCLE"
      [] customMode = 9 -> "LAND"
      [] customMode = 16 -> "POSHOLD"
      [] customMode = 17 -> "BRAKE"
      [] OTHER -> "MODE_" \o ToString(customMode)

Min(a, b) == IF a < b THEN a ELSE b
RemoveAt(s, i) == SubSeq(s, 1, i - 1) \o SubSeq(s, i + 1, Len(s))

\* parseMavlinkV2Message: returns the link after the message, the number of
\* 'telemetry' events emitted and whether 'position' was emitted.  The final
\* emit('telemetry') is outside the switch and runs for every message id.
\* BATTERY_STATUS: payload[35] is read as an unsigned byte and stored only
\* when it differs from the snapshot's battery by more than 5.
parseMavlinkV2Message(lk, msgId, payloadLen, dg) ==
    IF msgId = MSG_HEARTBEAT /\ payloadLen >= 9
    THEN LET armed == (dg.base_mode \div MAV_MODE_FLAG_SAFETY_ARMED) % 2 = 1
             mode == modeNames(dg.custom_mode)
         IN [lk |-> [lk EXCEPT !.armed = armed, !.mode = mode],
             telemetry |-> 1 + (IF armed # lk.armed THEN 1 ELSE 0)
                             + (IF mode # lk.mode THEN 1 ELSE 0),
             position |-> FALSE]
    ELSE IF msgId = MSG_GLOBAL_POSITION_INT /\ payloadLen >= 27
    THEN [lk |-> lk, telemetry |-> 1, position |-> TRUE]
    ELSE IF msgId = MSG_BATTERY_STATUS /\ payloadLen >= 36
    THEN LET batteryRemaining == dg.battery_remaining % 256
             delta == lk.battery - batteryRemaining
         IN [lk |-> IF (IF delta < 0 THEN -delta ELSE delta) > 5
                    THEN [lk EXCEPT !.battery = batteryRemaining] ELSE lk,
             telemetry |-> 1, position |-> FALSE]
    ELSE [lk |-> lk, telemetry |-> 1, position |-> FALSE]

\* handleRawMessage: framing by magic byte and minimal length only.
handleRawMessage(lk, dg) ==
    IF dg.magic = MAGIC_V2 /\ dg.buflen >= 12
    THEN parseMavlinkV2Message(lk, dg.msgId, Min(dg.plen, dg.buflen - 10), dg)
    ELSE IF dg.magic = MAGIC_V1 /\ dg.buflen >= 8
    THEN parseMavlinkV2Message(lk, dg.msgId, Min(dg.plen, dg.buflen - 6), dg)
    ELSE [lk |-> lk, telemetry |-> 0, position |-> FALSE]

\* Sample datagrams: v2 HEARTBEATs (armed / disarmed GUIDED), a v2
\* GLOBAL_POSITION_INT, a datagram that is no MAVLink frame, and an armed
\* HEARTBEAT whose two CRC bytes do not match its contents.  crc_ok tells
\* whether the CRC bytes on the wire agree with the frame; the decoder
\* never reads them.
Dgram(magic, buflen, msgId, plen, base_mode, custom_mode, crc_ok) ==
    [magic |-> magic, buflen |-> buflen, sysid |-> 1, compid |-> 1, msgId |-> msgId,
     base_mode |-> base_mode, custom_mode |-> custom_mode, battery_remaining |-> 0,
     plen |-> plen, crc_ok |-> crc_ok]
\* The same datagram sent by the vehicle (sysid, compid): header bytes 5 and 6.
MaxComponentId == 2
FromVehicle(dg, sysid, compid) == [dg EXCEPT !.sysid = sysid, !.compid = compid]
HeartbeatArmed == Dgram(MAGIC_V2, 21, MSG_HEARTBEAT, 9, 129, 4, TRUE)
HeartbeatDisarmed == Dgram(MAGIC_V2, 21, MSG_HEARTBEAT, 9, 1, 4, TRUE)
PositionFrame == Dgram(MAGIC_V2, 40, MSG_GLOBAL_POSITION_INT, 28, 0, 0, TRUE)
Garbage == Dgram(0, 5, 0, 0, 0, 0, FALSE)
CorruptHeartbeat == Dgram(MAGIC_V2, 21, MSG_HEARTBEAT, 9, 129, 4, FALSE)
\* v2 frames whose trailing zero payload bytes were left out by the sender: a
\* HEARTBEAT without its last two bytes, a GLOBAL_POSITION_INT without vz, hdg.
TruncatedHeartbeat == Dgram(MAGIC_V2, 19, MSG_HEARTBEAT, 7, 129, 4, TRUE)
TruncatedPosition == Dgram(MAGIC_V2, 34, MSG_GLOBAL_POSITION_INT, 22, 0, 0, TRUE)
\* A v2 BATTERY_STATUS whose int8 field battery_remaining (payload byte 35)
\* is b; -1 means that the vehicle does not estimate it.
BatteryStatus(b) ==
    [Dgram(MAGIC_V2, 48, MSG_BATTERY_STATUS, 36, 0, 0, TRUE) EXCEPT !.battery_remaining = b]
Datagrams == {HeartbeatArmed, HeartbeatDisarmed, PositionFrame, Garbage, CorruptHeartbeat}

\* Mode table of setMode(); -1 stands for `undefined` (unknown mode name).
ModeNames == {"GUIDED", "LAND", "BOGUS"}
modes(mode) ==
    CASE mode = "STABILIZE" -> 0 [] mode = "ACRO" -> 1 [] mode = "ALT_HOLD" -> 2
      [] mode = "AUTO" -> 3 [] mode = "GUIDED" -> 4 [] mode = "LOITER" -> 5
      [] mode = "RTL" -> 6 [] mode = "CIRCLE" -> 7 [] mode = "LAND" -> 9
      [] mode = "POSHOLD" -> 16 [] mode = "BRAKE" -> 17 [] OTHER -> -1

OrOne(x) == IF x = 0 THEN 1 ELSE x

\* buildCommandLongPacket / buildSetModePacket: the fields of the frame.
buildCommandLongPacket(lk, command, param1) ==
    [msgid |-> MSG_COMMAND_LONG, command |-> command, param1 |-> param1,
     custom_mode |-> 0, target_system |-> OrOne(lk.systemId),
     target_component |-> OrOne(lk.componentId), confirmation |-> 0]
buildSetModePacket(lk, customMode) ==
    [msgid |-> MSG_SET_MODE, command |-> 0, param1 |-> 0,
     custom_mode |-> customMode, target_system |-> OrOne(lk.systemId),
     target_component |-> 0, confirmation |-> 0]

\* A faulty sendPacket that does not test remoteAddress.
sendPacketPeerUnchecked(lk, packet) ==
    IF ~lk.connected \/ lk.connection = "null"
    THEN [ok |-> FALSE, out |-> <<>>]
    ELSE [ok |-> TRUE,
          out |-> <<[host |-> lk.remoteAddress, port |-> COMMAND_PORT,
                     packet |-> packet]>>]

\* sendPacket: fails when not connected, when there is no socket or when no
\* remote address has been learned; otherwise one datagram to
\* remoteAddress, port 5792.
sendPacket(lk, packet) ==
    IF ~lk.connected \/ lk.connection = "null"
    THEN [ok |-> FALSE, out |-> <<>>]
    ELSE IF lk.remoteAddress = NoAddress
    THEN [ok |-> FALSE, out |-> <<>>]
    ELSE [ok |-> TRUE,
          out |-> <<[host |-> lk.remoteAddress, port |-> COMMAND_PORT,
                     packet |-> packet]>>]

arm(lk) ==
    IF ~lk.connected \/ lk.connection = "null"
    THEN [ok |-> FALSE, out |-> <<>>]
    ELSE sendPacket(lk, buildCommandLongPacket(lk, MAV_CMD_COMPONENT_ARM_DISARM, 1))

disarm(lk) ==
    IF ~lk.connected \/ lk.connection = "null"
    THEN [ok |-> FALSE, out |-> <<>>]
    ELSE sendPacket(lk, buildCommandLongPacket(lk, MAV_CMD_COMPONENT_ARM_DISARM, 0))

setMode(lk, mode) ==
    IF ~lk.connected \/ lk.connection = "null"
    THEN [ok |-> FALSE, out |-> <<>>]
    ELSE IF modes(mode) = -1
    THEN [ok |-> FALSE, out |-> <<>>]
    ELSE sendPacket(lk, buildSetModePacket(lk, modes(mode)))

\* The three commands, selected by name.
Commands == {"arm", "disarm", "set_mode"}
command(lk, cmd, mode) ==
    CASE cmd = "arm" -> arm(lk)
      [] cmd = "disarm" -> disarm(lk)
      [] OTHER -> setMode(lk, mode)

(***************************************************************************)
(* MAVLinkService: the bytes of the encoder and the decoder's framing.  A  *)
(* Buffer is a sequence of bytes; offsets are the code's (from 0).         *)
(***************************************************************************)
MaxSystemId == 4
SystemIds == 0..MaxSystemId

RECURSIVE bitXor(_, _)
\* a ^ b on non-negative integers.
bitXor(a, b) ==
    IF a = 0 THEN b
    ELSE IF b = 0 THEN a
    ELSE 2 * bitXor(a \div 2, b \div 2) + ((a + b) % 2)

RECURSIVE writeUIntLE(_, _)
\* value as byteLength bytes, least significant first.
writeUIntLE(value, byteLength) ==
    IF byteLength = 0 THEN << >>
    ELSE <<value % 256>> \o writeUIntLE(value \div 256, byteLength - 1)

RECURSIVE readUIntLE(_, _, _)
readUIntLE(buffer, offset, byteLength) ==
    IF byteLength = 0 THEN 0
    ELSE buffer[offset + 1] + 256 * readUIntLE(buffer, offset + 1, byteLength - 1)

\* writeFloatLE of the two values the commands pass (IEEE 754 single).
writeFloatLE(value) ==
    CASE value = 0 -> <<0, 0, 0, 0>>
      [] value = 1 -> <<0, 0, 128, 63>>

\* Buffer.slice(start, end): end is clamped to the buffer's length.
slice(buffer, start, end) == SubSeq(buffer, start + 1, Min(end, Len(buffer)))

Zeros(n) == [i \in 1..n |-> 0]

\* One round of the X.25 CRC of calculateCRC.
crcAccumulate(crc, byte) ==
    LET tmp0 == bitXor(byte, crc % 256)
        tmp == bitXor(tmp0, (tmp0 * 16) % 256)
    IN bitXor(bitXor(bitXor(crc \div 256, tmp * 256), tmp * 8), tmp \div 16) % 65536

RECURSIVE crcOver(_, _, _)
\* The loop of calculateCRC from byte i on; crc stays within 16 bits.
crcOver(crc, buffer, i) ==
    IF i > Len(buffer) THEN crc
    ELSE LET next == crcAccumulate(crc, buffer[i])
         IN IF next > 65535 THEN next ELSE crcOver(next, buffer, i + 1)

\* crcExtra[msgId]; -1 stands for undefined.
crcExtra(msgId) ==
    CASE msgId = MSG_SET_MODE -> 89
      [] msgId = MSG_COMMAND_LONG -> 152
      [] OTHER -> -1

\* calculateCRC: over the buffer without its magic byte, then CRC_EXTRA.
calculateCRC(buffer, msgId) ==
    LET crc == crcOver(65535, buffer, 2)
    IN IF crcExtra(msgId) # -1 THEN crcAccumulate(crc, crcExtra(msgId)) ELSE crc

\* A faulty buildMavlinkV2Packet that writes a two-byte message id, which
\* makes the header nine bytes long.
buildMavlinkV2PacketShortId(msgId, payload) ==
    LET packet == <<MAGIC_V2, Len(payload), 0, 0, 0, 255, 190>>
                  \o writeUIntLE(msgId, 2) \o payload
    IN packet \o writeUIntLE(calculateCRC(packet, msgId), 2)

\* buildMavlinkV2Packet: ten header bytes, the payload, two CRC bytes.
buildMavlinkV2Packet(msgId, payload) ==
    LET packet == <<MAGIC_V2, Len(payload), 0, 0, 0, 255, 190>>
                  \o writeUIntLE(msgId, 3) \o payload
    IN packet \o writeUIntLE(calculateCRC(packet, msgId), 2)

\* The payload bytes of buildCommandLongPacket (33) and buildSetModePacket (6).
commandLongPayload(packet) ==
    writeFloatLE(packet.param1) \o Zeros(24) \o writeUIntLE(packet.command, 2)
    \o <<packet.target_system, packet.target_component, packet.confirmation>>
setModePayload(packet) ==
    writeUIntLE(packet.custom_mode, 4) \o <<packet.target_system, 1>>

\* The frame of a packet: its message id, its payload and the bytes sent.
encode(packet) ==
    LET payload == IF packet.msgid = MSG_SET_MODE THEN setModePayload(packet)
                   ELSE commandLongPayload(packet)
    IN [msgId |-> packet.msgid, payload |-> payload,
        bytes |-> buildMavlinkV2Packet(packet.msgid, payload)]

\* The framing of handleRawMessage on the bytes of a datagram: whether the
\* frame is passed on to the parser, and with which message id and payload.
NoDecoded == [accepted |-> FALSE, msgId |-> -1, payload |-> << >>, of |-> << >>]
rawFrame(buffer) ==
    IF Len(buffer) >= 12 /\ buffer[1] = MAGIC_V2
    THEN [accepted |-> TRUE, msgId |-> readUIntLE(buffer, 7, 3),
          payload |-> slice(buffer, 10, 10 + buffer[2]), of |-> buffer]
    ELSE IF Len(buffer) >= 8 /\ buffer[1] = MAGIC_V1
    THEN [accepted |-> TRUE, msgId |-> buffer[6],
          payload |-> slice(buffer, 6, 6 + buffer[2]), of |-> buffer]
    ELSE [accepted |-> FALSE, msgId |-> -1, payload |-> << >>, of |-> buffer]

NoWire == [msgId |-> -1, payload |-> << >>, bytes |-> << >>]

(***************************************************************************)
(* DroneManager: registry helpers.                                         *)
(***************************************************************************)
RECURSIVE firstMatch(_, _, _)
firstMatch(order, conns, userId) ==
    IF order = <<>> THEN NoDrone
    ELSE IF conns[Head(order)].userId = userId /\ conns[Head(order)].isConnected
    THEN Head(order)
    ELSE firstMatch(Tail(order), conns, userId)

\* A faulty getDroneByUserId that does not test isConnected.
RECURSIVE firstOwned(_, _, _)
firstOwned(order, conns, userId) ==
    IF order = <<>> THEN NoDrone
    ELSE IF conns[Head(order)].userId = userId THEN Head(order)
    ELSE firstOwned(Tail(order), conns, userId)
getDroneByUserIdAnyState(order, conns, userId) == firstOwned(order, conns, userId)

\* getDroneByUserId: the first record, in the Map's insertion order, that is
\* owned by userId and has isConnected = true; NoDrone stands for undefined.
getDroneByUserId(order, conns, userId) == firstMatch(order, conns, userId)

RECURSIVE without(_, _)
without(order, d) ==
    IF order = <<>> THEN <<>>
    ELSE IF Head(order) = d THEN without(Tail(order), d)
    ELSE <<Head(order)>> \o without(Tail(order), d)

\* Map.set keeps the position of an existing key and appends a new one.
mapSet(order, d) == IF \E i \in 1..Len(order) : order[i] = d THEN order ELSE Append(order, d)

RECURSIVE connectedOwners(_, _)
\* Array.from(connections.values()).filter(isConnected), as the owners' ids.
connectedOwners(order, conns) ==
    IF order = <<>> THEN <<>>
    ELSE IF conns[Head(order)].isConnected
    THEN <<conns[Head(order)].userId>> \o connectedOwners(Tail(order), conns)
    ELSE connectedOwners(Tail(order), conns)

\* managerCommandOnSingleton is a faulty variant that sends through the
\* singleton link instead of the record's own link.
\* armDrone / disarmDrone / setDroneMode: false when the record is missing
\* or has no link, else the link's command.
managerCommandOnSingleton(conns, lks, droneId, cmd, mode) ==
    IF droneId \notin DOMAIN conns THEN [ok |-> FALSE, out |-> <<>>, link |-> NoLink]
    ELSE LET r == command(lks[Singleton], cmd, mode)
         IN [ok |-> r.ok, out |-> r.out, link |-> Singleton]
managerCommand(conns, lks, droneId, cmd, mode) ==
    IF droneId \notin DOMAIN conns THEN [ok |-> FALSE, out |-> <<>>, link |-> NoLink]
    ELSE IF conns[droneId].mavlinkService = NoLink
    THEN [ok |-> FALSE, out |-> <<>>, link |-> NoLink]
    ELSE LET r == command(lks[conns[droneId].mavlinkService], cmd, mode)
         IN [ok |-> r.ok, out |-> r.out, link |-> conns[droneId].mavlinkService]

(***************************************************************************)
(* DroneWebSocketService: send helpers.  `sent` is the per-channel list of *)
(* frames written so far by the running handler, `cl` the clients map.     *)
(***************************************************************************)
sendToClient(sent, cl, ws, type, re) ==
    IF readyState[ws] = "OPEN"
    THEN [sent EXCEPT ![ws] = Append(@, Frame(type, re, ws, cl))]
    ELSE sent

\* broadcast: every channel in the map whose socket is open.
broadcast(sent, cl, type, re) ==
    [c \in Channels |->
        IF c \in DOMAIN cl /\ readyState[c] = "OPEN"
        THEN Append(sent[c], Frame(type, re, c, cl))
        ELSE sent[c]]

\* A faulty broadcastTelemetryFiltered that does not test admin or owner.
broadcastTelemetryUnfiltered(sent, cl, targetUserId) ==
    [c \in Channels |->
        IF c \in DOMAIN cl /\ cl[c].authenticated /\ readyState[c] = "OPEN"
        THEN Append(sent[c], Frame("telemetry", "telemetry", c, cl))
        ELSE sent[c]]

\* broadcastTelemetryFiltered: authenticated, open, and admin or owner.
broadcastTelemetryFiltered(sent, cl, targetUserId) ==
    [c \in Channels |->
        IF c \in DOMAIN cl /\ cl[c].authenticated /\ readyState[c] = "OPEN"
           /\ (cl[c].isAdmin \/ cl[c].userId = targetUserId)
        THEN Append(sent[c], Frame("telemetry", "telemetry", c, cl))
        ELSE sent[c]]

\* A faulty broadcastMessageFiltered that does not test the target user.
broadcastMessageUnfiltered(sent, cl, targetUserId) ==
    [c \in Channels |->
        IF c \in DOMAIN cl /\ cl[c].authenticated /\ readyState[c] = "OPEN"
        THEN Append(sent[c], Frame("message", "message", c, cl))
        ELSE sent[c]]

\* broadcastMessageFiltered: authenticated, open, and the target user, or
\* every such channel when targetUserId is null (NoUser).
broadcastMessageFiltered(sent, cl, targetUserId) ==
    [c \in Channels |->
        IF c \in DOMAIN cl /\ cl[c].authenticated /\ readyState[c] = "OPEN"
           /\ (targetUserId = NoUser \/ cl[c].userId = targetUserId)
        THEN Append(sent[c], Frame("message", "message", c, cl))
        ELSE sent[c]]

RECURSIVE repeatTelemetry(_, _, _, _)
\* n 'telemetry' events of a manager link, each republished by the manager's
\* listener with the captured userId and fanned out by the hub.
repeatTelemetry(sent, cl, targetUserId, n) ==
    IF n = 0 THEN sent
    ELSE repeatTelemetry(broadcastTelemetryFiltered(sent, cl, targetUserId),
                         cl, targetUserId, n - 1)

RECURSIVE emitMessages(_, _, _)
\* one 'message' event per entry of `targets`, in order.
emitMessages(sent, cl, targets) ==
    IF targets = <<>> THEN sent
    ELSE emitMessages(broadcastMessageFiltered(sent, cl, Head(targets)),
                      cl, Tail(targets))

\* An event emitted by a link reaches the hub only from the singleton
\* (setupMAVLinkListeners), where it is broadcast.
linkEvent(sent, cl, l, type) ==
    IF l = Singleton THEN broadcast(sent, cl, type, "broadcast") ELSE sent

\* The Drone table: one row per drone, id = position (autoincrement), with the
\* unique index on uin (Drone_uin_key).
MaxUins == 2
Uins == 1..MaxUins
DroneRow(uin, userId, status) == [uin |-> uin, userId |-> userId, status |-> status]
findUnique(table, uin) == \E i \in 1..Len(table) : table[i].uin = uin
\* A registration answered with `success: true` and the droneId it returned.
Registration(route, uin, droneId) == [route |-> route, uin |-> uin, droneId |-> droneId]
\* index.ts once server.listen has called back and the recovery query is over.
Serving == [listening |-> TRUE, recovery |-> "done", timer |-> "fired"]

\* TelemetryService: samples are numbered in the order storeTelemetry gets
\* them; a flush awaits at most MaxFlushes createMany calls at a time.
batchSize == 10
MaxSamples == 10
MaxFlushes == 2
Samples == 1..MaxSamples

\* The User table after signup: every user has a row, resetPasswordOtp has
\* its column default 0.  A user's email is modelled by the user's id.
SignedUp == [u \in Users |-> [resetPasswordOtp |-> 0]]

\* Decimal strings as sequences of digits.  String(n) of a number, padStart
\* with "0", and parseInt / Number of a string of digits ("" gives 0 with
\* Number).
OtpWidth == 6
MaxOtp == 9
RECURSIVE String(_)
String(n) == IF n < 10 THEN <<n>> ELSE Append(String(n \div 10), n % 10)
RECURSIVE padStart(_, _)
padStart(str, width) == IF Len(str) >= width THEN str ELSE padStart(<<0>> \o str, width)
RECURSIVE Number(_)
Number(str) ==
    IF str = << >> THEN 0 ELSE 10 * Number(SubSeq(str, 1, Len(str) - 1)) + str[Len(str)]
\* generateOtp: the number drawn by Math.random, as a string of six digits.
generateOtp(random) == padStart(String(random), OtpWidth)

\* The objects of the process right after construction.
InitProgram ==
    /\ clients = << >>
    /\ readyState = [c \in Channels |-> "CLOSED"]
    /\ droneData = FALSE
    /\ connections = << >>
    /\ connOrder = << >>
    /\ nextDroneId = 1
    /\ nextLink = 1
    /\ links = [l \in LinkIds |-> IF l = Singleton THEN [NewLink EXCEPT !.exists = TRUE]
                                   ELSE NewLink]
    /\ crashed = FALSE
    /\ lastOp = NoOp
    /\ lastSent = NoSent
    /\ lastDatagram = << >>
    /\ lastResult = FALSE
    /\ now = EVENT_COOLDOWN_MS
    /\ activeSessions = << >>
    /\ lastEventTimestamps = << >>
    /\ droneSession = << >>
    /\ droneEvent = << >>
    /\ tasks = << >>
    /\ wire = NoWire
    /\ decoded = NoDecoded
    /\ registered = << >>
    /\ regTasks = << >>
    /\ telemetryBuffer = << >>
    /\ batchTimeout = "null"
    /\ flushing = << >>
    /\ telemetryData = [k \in Samples |-> 0]
    /\ nextSample = 1

\* A process that is up: nothing registered yet, startup over.
Init ==
    /\ InitProgram
    /\ User = SignedUp
    /\ Drone = << >>
    /\ boot = Serving

Unauthenticated == [userId |-> NoUser, isAdmin |-> FALSE, authenticated |-> FALSE]

\* Extend / restrict a function by one key.
With(f, k, v) == [x \in DOMAIN f \cup {k} |-> IF x = k THEN v ELSE f[x]]
Without(f, k) == [x \in DOMAIN f \ {k} |-> f[x]]

(***************************************************************************)
(* Subscriber hub: channel lifecycle and inbound messages.                 *)
(***************************************************************************)
\* wss.on('connection'): register the channel unauthenticated, send the banner.
handleConnection(ws) ==
    /\ ~crashed
    /\ ws \notin DOMAIN clients
    /\ readyState[ws] = "CLOSED"
    /\ LET cl == With(clients, ws, Unauthenticated)
       IN /\ clients' = cl
          /\ readyState' = [readyState EXCEPT ![ws] = "OPEN"]
          /\ lastSent' = [NoSent EXCEPT ![ws] = <<Frame("status", "banner", ws, cl)>>]
    /\ lastOp' = Op("handleConnection", ws, NoUser, NoDrone, NoLink, 0)
    /\ lastDatagram' = << >>
    /\ lastResult' = TRUE
    /\ UNCHANGED <<droneData, mgrVars, links, crashed, sessVars, codecVars, bufVars, User, appVars>>

\* The socket starts closing: the channel stays in the map, no longer OPEN.
ChannelClosing(ws) ==
    /\ ~crashed
    /\ ws \in DOMAIN clients
    /\ readyState[ws] = "OPEN"
    /\ readyState' = [readyState EXCEPT ![ws] = "CLOSING"]
    /\ lastOp' = Op("ChannelClosing", ws, NoUser, NoDrone, NoLink, 0)
    /\ lastSent' = NoSent
    /\ lastDatagram' = << >>
    /\ lastResult' = TRUE
    /\ UNCHANGED <<clients, droneData, mgrVars, links, crashed, sessVars, codecVars, bufVars, User, appVars>>

\* ws.on('close') / ws.on('error'): the channel is removed from the map.
ChannelClose(ws) ==
    /\ ~crashed
    /\ ws \in DOMAIN clients
    /\ clients' = Without(clients, ws)
    /\ readyState' = [readyState EXCEPT ![ws] = "CLOSED"]
    /\ lastOp' = Op("ChannelClose", ws, NoUser, NoDrone, NoLink, 0)
    /\ lastSent' = NoSent
    /\ lastDatagram' = << >>
    /\ lastResult' = TRUE
    /\ UNCHANGED <<droneData, mgrVars, links, crashed, sessVars, codecVars, bufVars, User, appVars>>

\* handleAuthentication: identity and admin flag are copied from the message;
\* the bearer token carried by the message is not looked at.
handleAuthentication(ws, userId, isAdmin, bearer) ==
    /\ ~crashed
    /\ ws \in DOMAIN clients
    /\ readyState[ws] = "OPEN"
    /\ IF userId = NoUser
       THEN /\ clients' = clients
            /\ lastSent' = sendToClient(NoSent, clients, ws, "error", "auth")
            /\ lastResult' = FALSE
       ELSE LET cl == [clients EXCEPT ![ws] =
                          [userId |-> userId, isAdmin |-> isAdmin, authenticated |-> TRUE]]
            IN /\ clients' = cl
               /\ lastSent' = sendToClient(NoSent, cl, ws, "status", "auth")
               /\ lastResult' = TRUE
    /\ lastOp' = Op("handleAuthentication", ws, userId, NoDrone, NoLink, bearer)
    /\ lastDatagram' = << >>
    /\ UNCHANGED <<readyState, droneData, mgrVars, links, crashed, sessVars, codecVars, bufVars, User, appVars>>

\* case 'ping': a status frame, whatever the channel's state.
handlePing(ws) ==
    /\ ~crashed
    /\ ws \in DOMAIN clients
    /\ readyState[ws] = "OPEN"
    /\ lastSent' = sendToClient(NoSent, clients, ws, "status", "ping")
    /\ lastOp' = Op("handlePing", ws, clients[ws].userId, NoDrone, NoLink, 0)
    /\ lastDatagram' = << >>
    /\ lastResult' = TRUE
    /\ UNCHANGED <<hubVars, mgrVars, links, crashed, sessVars, codecVars, bufVars, User, appVars>>

\* handleConnectRequest: connects the singleton link; no check of the channel.
handleConnectRequest(ws, protocol) ==
    /\ ~crashed
    /\ ws \in DOMAIN clients
    /\ readyState[ws] = "OPEN"
    /\ LET r == connect(links[Singleton], protocol)
       IN /\ links' = [links EXCEPT ![Singleton] = r.lk]
          /\ lastSent' =
                IF r.ok
                THEN broadcast(NoSent, clients, "connected", "broadcast")
                ELSE sendToClient(broadcast(NoSent, clients, "error", "broadcast"),
                                  clients, ws, "error", "connect")
          /\ lastResult' = r.ok
    /\ lastOp' = Op("handleConnectRequest", ws, clients[ws].userId, NoDrone, Singleton, 0)
    /\ lastDatagram' = << >>
    /\ UNCHANGED <<hubVars, mgrVars, crashed, sessVars, codecVars, bufVars, User, appVars>>

\* handleDisconnectRequest: disconnects the singleton link (whose
\* 'disconnected' event is broadcast) and broadcasts 'disconnected'.
handleDisconnectRequest(ws) ==
    /\ ~crashed
    /\ ws \in DOMAIN clients
    /\ readyState[ws] = "OPEN"
    /\ links' = [links EXCEPT ![Singleton] = disconnect(@)]
    /\ lastSent' = broadcast(broadcast(NoSent, clients, "disconnected", "broadcast"),
                             clients, "disconnected", "broadcast")
    /\ lastOp' = Op("handleDisconnectRequest", ws, clients[ws].userId, NoDrone, Singleton, 0)
    /\ lastDatagram' = << >>
    /\ lastResult' = TRUE
    /\ UNCHANGED <<hubVars, mgrVars, crashed, sessVars, codecVars, bufVars, User, appVars>>

\* handleArmRequest / handleDisarmRequest / handleSetModeRequest.
\* mode = "" stands for a missing mode parameter.
handleCommandRequest(ws, cmd, mode) ==
    /\ ~crashed
    /\ ws \in DOMAIN clients
    /\ readyState[ws] = "OPEN"
    /\ LET userId == clients[ws].userId
           drone == getDroneByUserId(connOrder, connections, userId)
           r == managerCommand(connections, links, drone, cmd, mode)
       IN IF userId = NoUser \/ (cmd = "set_mode" /\ mode = "") \/ drone = NoDrone
          THEN /\ lastSent' = sendToClient(NoSent, clients, ws, "error", "command")
               /\ lastDatagram' = << >>
               /\ lastResult' = FALSE
               /\ lastOp' = Op(cmd, ws, userId, NoDrone, NoLink, 0)
          ELSE /\ lastSent' = sendToClient(NoSent, clients, ws, "status", "command")
               /\ lastDatagram' = r.out
               /\ lastResult' = r.ok
               /\ lastOp' = Op(cmd, ws, userId, drone, r.link, 1)
    /\ UNCHANGED <<hubVars, mgrVars, links, crashed, sessVars, codecVars, bufVars, User, appVars>>

(***************************************************************************)
(* Drone manager operations.                                               *)
(***************************************************************************)
\* registerDrone (in-memory): hands out the next id, stores nothing and never
\* looks at uin; POST /admin/drones/register answers success with that id.
registerDrone(userId, uin) ==
    /\ ~crashed
    /\ nextDroneId <= MaxRegistrations
    /\ nextDroneId' = nextDroneId + 1
    /\ registered' = Append(registered, Registration("admin", uin, nextDroneId))
    /\ lastOp' = Op("registerDrone", 0, userId, nextDroneId, NoLink, 0)
    /\ lastSent' = NoSent
    /\ lastDatagram' = << >>
    /\ lastResult' = TRUE
    /\ UNCHANGED <<hubVars, connections, connOrder, nextLink, links, crashed, sessVars,
                   codecVars, bufVars, User, Drone, regTasks, boot>>

\* initializeDrone: (over)writes the record of droneId, with no link.
initializeDrone(droneId, userId, protocol) ==
    /\ ~crashed
    /\ connections' = With(connections, droneId,
                           [userId |-> userId, connectionString |-> protocol,
                            mavlinkService |-> NoLink, isConnected |-> FALSE])
    /\ connOrder' = mapSet(connOrder, droneId)
    /\ lastOp' = Op("initializeDrone", 0, userId, droneId, NoLink, 0)
    /\ lastSent' = NoSent
    /\ lastDatagram' = << >>
    /\ lastResult' = TRUE
    /\ UNCHANGED <<hubVars, nextDroneId, nextLink, links, crashed, sessVars, codecVars, bufVars, User, appVars>>

\* connectDrone: a new MAVLinkService replaces the record's link, the
\* telemetry listener captures droneId and userId, then connect() runs.
connectDrone(droneId) ==
    /\ ~crashed
    /\ IF droneId \notin DOMAIN connections
       THEN /\ lastResult' = FALSE
            /\ lastOp' = Op("connectDrone", 0, NoUser, droneId, NoLink, 0)
            /\ UNCHANGED <<connections, nextLink, links>>
       ELSE /\ nextLink <= MaxLinks
            /\ LET l == nextLink
                   old == connections[droneId]
                   fresh == [NewLink EXCEPT !.exists = TRUE, !.subDrone = droneId,
                                            !.subUser = old.userId]
                   r == connect(fresh, old.connectionString)
               IN /\ links' = [links EXCEPT ![l] = r.lk]
                  /\ connections' = [connections EXCEPT ![droneId] =
                         [old EXCEPT !.mavlinkService = l, !.isConnected = r.ok]]
                  /\ lastResult' = r.ok
                  /\ lastOp' = Op("connectDrone", 0, old.userId, droneId, l, 1)
            /\ nextLink' = nextLink + 1
    /\ lastSent' = NoSent
    /\ lastDatagram' = << >>
    /\ UNCHANGED <<hubVars, connOrder, nextDroneId, crashed, sessVars, codecVars, bufVars, User, appVars>>

\* disconnectDrone: disconnect the record's link (if any), delete the record.
disconnectDrone(droneId) ==
    /\ ~crashed
    /\ IF droneId \notin DOMAIN connections
       THEN UNCHANGED <<connections, connOrder, links>>
       ELSE /\ links' = IF connections[droneId].mavlinkService = NoLink THEN links
                        ELSE [links EXCEPT ![connections[droneId].mavlinkService] = disconnect(@)]
            /\ connections' = Without(connections, droneId)
            /\ connOrder' = without(connOrder, droneId)
    /\ lastOp' = Op("disconnectDrone", 0, NoUser, droneId, NoLink,
                    IF droneId \in DOMAIN connections THEN 1 ELSE 0)
    /\ lastSent' = NoSent
    /\ lastDatagram' = << >>
    /\ lastResult' = TRUE
    /\ UNCHANGED <<hubVars, nextDroneId, nextLink, crashed, sessVars, codecVars, bufVars, User, appVars>>

\* The 'message' events sendMessage emits, as the list of their targetUserId
\* (NoUser for null); `throws` when the target is unknown or not connected.
sendMessageTargets(order, conns, targetDroneId) ==
    IF targetDroneId # NoDrone
    THEN IF targetDroneId \notin DOMAIN conns THEN [throws |-> TRUE, targets |-> << >>]
         ELSE IF ~conns[targetDroneId].isConnected THEN [throws |-> TRUE, targets |-> << >>]
         ELSE [throws |-> FALSE, targets |-> <<conns[targetDroneId].userId>>]
    ELSE IF connectedOwners(order, conns) = << >>
         THEN [throws |-> FALSE, targets |-> <<NoUser>>]
         ELSE [throws |-> FALSE, targets |-> connectedOwners(order, conns)]

\* sendMessage(message, importance, targetDroneId); NoDrone is null.
sendMessage(targetDroneId) ==
    /\ ~crashed
    /\ LET r == sendMessageTargets(connOrder, connections, targetDroneId)
       IN /\ lastSent' = emitMessages(NoSent, clients, r.targets)
          /\ lastResult' = ~r.throws
          /\ lastOp' = Op("sendMessage", 0,
                          IF targetDroneId \in DOMAIN connections
                          THEN connections[targetDroneId].userId ELSE NoUser,
                          targetDroneId, NoLink, Len(r.targets))
    /\ lastDatagram' = << >>
    /\ UNCHANGED <<hubVars, mgrVars, links, crashed, sessVars, codecVars, bufVars, User, appVars>>

(***************************************************************************)
(* Socket events of a link.                                                *)
(***************************************************************************)
\* udpServer.on('listening'): connected = true, emit 'connected'.
Listening(l) ==
    /\ ~crashed
    /\ links[l].exists
    /\ links[l].connection = "binding"
    /\ links' = [links EXCEPT ![l].connection = "listening", ![l].connected = TRUE]
    /\ lastSent' = linkEvent(NoSent, clients, l, "connected")
    /\ lastOp' = Op("Listening", 0, NoUser, NoDrone, l, 0)
    /\ lastDatagram' = << >>
    /\ lastResult' = TRUE
    /\ UNCHANGED <<hubVars, mgrVars, crashed, sessVars, codecVars, bufVars, User, appVars>>

\* udpServer.on('error'): connected = false, emit 'error'.  Only the
\* singleton has an 'error' listener (the hub's); on a manager link the
\* emit throws out of the socket's event handler.
SocketError(l) ==
    /\ ~crashed
    /\ links[l].exists
    /\ links[l].connection \in {"binding", "listening"}
    /\ links' = [links EXCEPT ![l].connected = FALSE,
                              ![l].connection = IF @ = "binding" THEN "failed" ELSE @]
    /\ crashed' = (l # Singleton)
    /\ lastSent' = linkEvent(NoSent, clients, l, "error")
    /\ lastOp' = Op("SocketError", 0, NoUser, NoDrone, l, 0)
    /\ lastDatagram' = << >>
    /\ lastResult' = FALSE
    /\ UNCHANGED <<hubVars, mgrVars, sessVars, codecVars, bufVars, User, appVars>>

\* udpServer.on('message'): learn the peer, decode, emit.  'position' of the
\* singleton is cached and broadcast by the hub; 'telemetry' of a manager
\* link is republished by the manager with the captured owner and filtered.
UdpMessage(l, host, port, dg) ==
    /\ ~crashed
    /\ links[l].exists
    /\ links[l].connection = "listening"
    /\ LET r == handleRawMessage(heard(learnPeer(links[l], host, port), dg), dg)
       IN /\ links' = [links EXCEPT ![l] = r.lk]
          /\ droneData' = (droneData \/ (l = Singleton /\ r.position))
          /\ lastSent' =
                IF l = Singleton
                THEN IF r.position
                     THEN broadcast(NoSent, clients, "position", "broadcast")
                     ELSE NoSent
                ELSE repeatTelemetry(NoSent, clients, links[l].subUser, r.telemetry)
          /\ lastOp' = Op("UdpMessage", 0, links[l].subUser, links[l].subDrone, l, r.telemetry)
                        @@ [frame |-> dg, host |-> host, port |-> port]
    /\ lastDatagram' = << >>
    /\ lastResult' = TRUE
    /\ UNCHANGED <<clients, readyState, mgrVars, crashed, sessVars, codecVars, bufVars, User, appVars>>

\* The heartbeat window (10 s) passes on a link whose socket is open, with no
\* datagram in between.  The udp branch of connect() returns before
\* waitForHeartbeat is reached, so no timer of the link is pending: nothing
\* runs and the link is left as it is.
HeartbeatWindow(l) ==
    /\ ~crashed
    /\ links[l].exists
    /\ links[l].connection \in {"binding", "listening"}
    /\ now + HEARTBEAT_TIMEOUT_MS <= EVENT_COOLDOWN_MS + MaxWindows * HEARTBEAT_TIMEOUT_MS
    /\ now' = now + HEARTBEAT_TIMEOUT_MS
    /\ lastOp' = Op("HeartbeatWindow", 0, NoUser, NoDrone, l, 0)
    /\ lastSent' = NoSent
    /\ lastDatagram' = << >>
    /\ lastResult' = TRUE
    /\ UNCHANGED <<hubVars, mgrVars, links, crashed, codecVars, bufVars, User, appVars, activeSessions,
                   lastEventTimestamps, droneSession, droneEvent, tasks>>

\* The reconnect period (5 s) passes on a link that holds a socket but is
\* not connected.  attemptReconnect() is called only from the 'error'
\* handler of setupMessageHandlers(), which the udp branch of connect() never
\* installs, so reconnectInterval is null: no timer runs, nothing is bound.
ReconnectWindow(l) ==
    /\ ~crashed
    /\ links[l].exists
    /\ links[l].connection # "null" /\ ~links[l].connected
    /\ now + RECONNECT_INTERVAL_MS <= EVENT_COOLDOWN_MS + MaxWindows * HEARTBEAT_TIMEOUT_MS
    /\ now' = now + RECONNECT_INTERVAL_MS
    /\ lastOp' = Op("ReconnectWindow", 0, NoUser, NoDrone, l, 0)
    /\ lastSent' = NoSent
    /\ lastDatagram' = << >>
    /\ lastResult' = TRUE
    /\ UNCHANGED <<hubVars, mgrVars, links, crashed, codecVars, bufVars, User, appVars, activeSessions,
                   lastEventTimestamps, droneSession, droneEvent, tasks>>

(***************************************************************************)
(* Request surface of routes/drone.ts: acts on the singleton link.         *)
(***************************************************************************)
RouteConnect(protocol) ==
    /\ ~crashed
    /\ LET r == connect(links[Singleton], protocol)
       IN /\ links' = [links EXCEPT ![Singleton] = r.lk]
          /\ lastSent' = IF r.err THEN broadcast(NoSent, clients, "error", "broadcast")
                         ELSE NoSent
          /\ lastResult' = r.ok
    /\ lastOp' = Op("RouteConnect", 0, NoUser, NoDrone, Singleton, 0)
    /\ lastDatagram' = << >>
    /\ UNCHANGED <<hubVars, mgrVars, crashed, sessVars, codecVars, bufVars, User, appVars>>

RouteDisconnect ==
    /\ ~crashed
    /\ links' = [links EXCEPT ![Singleton] = disconnect(@)]
    /\ lastSent' = broadcast(NoSent, clients, "disconnected", "broadcast")
    /\ lastOp' = Op("RouteDisconnect", 0, NoUser, NoDrone, Singleton,
                    IF links[Singleton].connection = "null" THEN 0 ELSE 1)
    /\ lastDatagram' = << >>
    /\ lastResult' = TRUE
    /\ UNCHANGED <<hubVars, mgrVars, crashed, sessVars, codecVars, bufVars, User, appVars>>

\* /drone/arm, /drone/disarm, /drone/set-mode: 400 when isConnected() is
\* false, else the link's command.
RouteCommand(cmd, mode) ==
    /\ ~crashed
    /\ LET r == IF ~links[Singleton].connected THEN [ok |-> FALSE, out |-> << >>]
                ELSE command(links[Singleton], cmd, mode)
       IN /\ lastDatagram' = r.out
          /\ lastResult' = r.ok
    /\ lastOp' = Op(cmd, 0, NoUser, NoDrone, Singleton, 1)
    /\ lastSent' = NoSent
    /\ UNCHANGED <<hubVars, mgrVars, links, crashed, sessVars, codecVars, bufVars, User, appVars>>

(***************************************************************************)
(* POST /user/drone/register.  The handler awaits the store three times;   *)
(* a request suspended at an await is a record of regTasks.                *)
(***************************************************************************)
RegTask(userId, uin, droneId, pc) ==
    [userId |-> userId, uin |-> uin, droneId |-> droneId, pc |-> pc]

\* Up to the answer of findUnique: 400 if a row has the uin, else go on.
UserRegisterFind(userId, uin) ==
    /\ ~crashed
    /\ Len(regTasks) < MaxTasks
    /\ IF findUnique(Drone, uin)
       THEN /\ lastResult' = FALSE
            /\ UNCHANGED regTasks
       ELSE /\ lastResult' = TRUE
            /\ regTasks' = Append(regTasks, RegTask(userId, uin, NoDrone, "create"))
    /\ lastOp' = Op("UserRegisterFind", 0, userId, NoDrone, NoLink, uin)
    /\ lastSent' = NoSent
    /\ lastDatagram' = << >>
    /\ UNCHANGED <<hubVars, mgrVars, links, crashed, sessVars, codecVars, bufVars, User, Drone,
                   registered, boot>>

\* prisma.drone.create: the unique index rejects a second row with the uin
\* (the catch answers 500); otherwise the row is inserted as 'offline'.
UserRegisterCreate(t) ==
    /\ ~crashed
    /\ t \in 1..Len(regTasks)
    /\ regTasks[t].pc = "create"
    /\ LET task == regTasks[t]
       IN IF findUnique(Drone, task.uin)
          THEN /\ lastResult' = FALSE
               /\ regTasks' = RemoveAt(regTasks, t)
               /\ lastOp' = Op("UserRegisterCreate", 0, task.userId, NoDrone, NoLink, task.uin)
               /\ UNCHANGED Drone
          ELSE /\ lastResult' = TRUE
               /\ Drone' = Append(Drone, DroneRow(task.uin, task.userId, "offline"))
               /\ regTasks' = [regTasks EXCEPT ![t] =
                                  RegTask(task.userId, task.uin, Len(Drone) + 1, "connect")]
               /\ lastOp' = Op("UserRegisterCreate", 0, task.userId, Len(Drone) + 1,
                               NoLink, task.uin)
    /\ lastSent' = NoSent
    /\ lastDatagram' = << >>
    /\ UNCHANGED <<hubVars, mgrVars, links, crashed, sessVars, codecVars, bufVars, User, registered, boot>>

\* The rest of the handler: initializeDrone, connectDrone over udp, the row
\* set to 'connected' when the connect succeeded, and the success answer.
UserRegisterConnect(t) ==
    /\ ~crashed
    /\ t \in 1..Len(regTasks)
    /\ regTasks[t].pc = "connect"
    /\ nextLink <= MaxLinks
    /\ LET task == regTasks[t]
           l == nextLink
           fresh == [NewLink EXCEPT !.exists = TRUE, !.subDrone = task.droneId,
                                    !.subUser = task.userId]
           r == connect(fresh, "udp")
       IN /\ links' = [links EXCEPT ![l] = r.lk]
          /\ connections' = With(connections, task.droneId,
                                 [userId |-> task.userId, connectionString |-> "udp",
                                  mavlinkService |-> l, isConnected |-> r.ok])
          /\ connOrder' = mapSet(connOrder, task.droneId)
          /\ Drone' = IF r.ok THEN [Drone EXCEPT ![task.droneId].status = "connected"]
                      ELSE Drone
          /\ registered' = Append(registered, Registration("user", task.uin, task.droneId))
          /\ lastOp' = Op("UserRegisterConnect", 0, task.userId, task.droneId, l, task.uin)
          /\ lastResult' = r.ok
    /\ nextLink' = nextLink + 1
    /\ regTasks' = RemoveAt(regTasks, t)
    /\ lastSent' = NoSent
    /\ lastDatagram' = << >>
    /\ UNCHANGED <<hubVars, nextDroneId, crashed, sessVars, codecVars, bufVars, User, boot>>

\* POST /user/drone/disconnect: 404 when getDroneByUserId finds nothing; else
\* disconnectDrone of the record found, then the drone's row is set to
\* 'offline' (the update throws, and the answer is 500, when there is no such
\* row).  lastOp.drone is what getDroneByUserId returned.
UserDisconnect(userId) ==
    /\ ~crashed
    /\ LET d == getDroneByUserId(connOrder, connections, userId)
       IN /\ lastOp' = Op("UserDisconnect", 0, userId, d, NoLink, 0)
          /\ IF d = NoDrone
             THEN /\ lastResult' = FALSE
                  /\ UNCHANGED <<connections, connOrder, links, Drone>>
             ELSE /\ links' = IF connections[d].mavlinkService = NoLink THEN links
                              ELSE [links EXCEPT ![connections[d].mavlinkService] =
                                                      disconnect(@)]
                  /\ connections' = Without(connections, d)
                  /\ connOrder' = without(connOrder, d)
                  /\ Drone' = IF d \in 1..Len(Drone)
                              THEN [Drone EXCEPT ![d].status = "offline"] ELSE Drone
                  /\ lastResult' = (d \in 1..Len(Drone))
    /\ lastSent' = NoSent
    /\ lastDatagram' = << >>
    /\ UNCHANGED <<hubVars, nextDroneId, nextLink, crashed, sessVars, codecVars, bufVars, User,
                   registered, regTasks, boot>>

\* GET /user/stats/:userId: the user's rows are read and the operational
\* ones ('connected' or 'flying') counted.
Operational(row) == row.status \in {"connected", "flying"}
UserStats(userId) ==
    /\ ~crashed
    /\ lastOp' = Op("UserStats", 0, userId, NoDrone, NoLink,
                    Cardinality({i \in 1..Len(Drone) :
                                    Drone[i].userId = userId /\ Operational(Drone[i])}))
    /\ lastSent' = NoSent
    /\ lastDatagram' = << >>
    /\ lastResult' = TRUE
    /\ UNCHANGED <<hubVars, mgrVars, links, crashed, sessVars, codecVars, bufVars, User, appVars>>

(***************************************************************************)
(* Startup (index.ts).  The hub is attached to the HTTP server, then       *)
(* server.listen is called; its callback runs once the server is listening *)
(* and awaits the recovery query, then arms the auto-connect timer.        *)
(***************************************************************************)
\* The tables a previous process can leave behind, and the fresh process.
StaleTables ==
    UNION {[1..n -> {DroneRow(uin, userId, status) :
                       uin \in Uins, userId \in {1}, status \in {"offline", "connected", "flying"}}]
           : n \in 0..MaxUins}
InitRestart ==
    /\ InitProgram
    /\ User = SignedUp
    /\ Drone \in {t \in StaleTables : \A i \in 1..Len(t) : t[i].uin = i}
    /\ boot = [listening |-> FALSE, recovery |-> "none", timer |-> "none"]

\* 'listening': the server accepts from now on; the callback issues
\* prisma.drone.updateMany and is suspended at the await.
Listen ==
    /\ ~boot.listening
    /\ boot' = [boot EXCEPT !.listening = TRUE, !.recovery = "running"]
    /\ lastOp' = Op("Listen", 0, NoUser, NoDrone, NoLink, 0)
    /\ lastSent' = NoSent
    /\ lastDatagram' = << >>
    /\ lastResult' = TRUE
    /\ UNCHANGED <<hubVars, mgrVars, links, crashed, sessVars, codecVars, bufVars, User, Drone,
                   registered, regTasks>>

\* The recovery query is answered: every 'connected' or 'flying' row is
\* 'offline'; the callback goes on and arms the auto-connect timer.
RecoveryDone ==
    /\ boot.recovery = "running"
    /\ Drone' = [i \in 1..Len(Drone) |->
                    IF Operational(Drone[i]) THEN [Drone[i] EXCEPT !.status = "offline"]
                    ELSE Drone[i]]
    /\ boot' = [boot EXCEPT !.recovery = "done", !.timer = "armed"]
    /\ lastOp' = Op("RecoveryDone", 0, NoUser, NoDrone, NoLink,
                    Cardinality({i \in 1..Len(Drone) : Operational(Drone[i])}))
    /\ lastSent' = NoSent
    /\ lastDatagram' = << >>
    /\ lastResult' = TRUE
    /\ UNCHANGED <<hubVars, mgrVars, links, crashed, sessVars, codecVars, bufVars, User,
                   registered, regTasks>>

\* The timer fires: getMAVLinkService().connect('udp:0.0.0.0:14550').
AutoConnect ==
    /\ ~crashed
    /\ boot.timer = "armed"
    /\ boot' = [boot EXCEPT !.timer = "fired"]
    /\ LET r == connect(links[Singleton], "udp")
       IN /\ links' = [links EXCEPT ![Singleton] = r.lk]
          /\ lastResult' = r.ok
    /\ lastOp' = Op("AutoConnect", 0, NoUser, NoDrone, Singleton, 0)
    /\ lastSent' = NoSent
    /\ lastDatagram' = << >>
    /\ UNCHANGED <<hubVars, mgrVars, crashed, sessVars, codecVars, bufVars, User, Drone,
                   registered, regTasks>>

(***************************************************************************)
(* SessionService (session/event engine).  An async call is a task that    *)
(* is suspended at an await; the store answers in a later step.  The clock *)
(* starts at a time at least one cooldown after the epoch, as Date.now()   *)
(* does.                                                                   *)
(***************************************************************************)
ClockStep == EVENT_COOLDOWN_MS \div 2
LastTick == EVENT_COOLDOWN_MS + MaxTicks * ClockStep

DerivedKinds == {"takeoff", "landing", "battery_low", "mode_change"}
KindOrder == <<"takeoff", "landing", "battery_low", "mode_change">>

\* Telemetry passed to updateSession; altitude or battery 0 and mode ""
\* also stand for an absent field (both are falsy in the triggers).
Telemetry(armed, altitude, battery, mode) ==
    [armed |-> armed, altitude |-> altitude, battery |-> battery, mode |-> mode]
TakeoffSample == Telemetry(TRUE, 6, 80, "")
LandingSample == Telemetry(FALSE, 1, 80, "")
LowBatterySample == Telemetry(TRUE, 0, 15, "GUIDED")
SameModeSample == Telemetry(TRUE, 0, 80, "LAND")

\* The trigger of every derived kind, as updateSession tests it.
Trigger(kind, t) ==
    CASE kind = "takeoff" -> t.armed /\ t.altitude # 0 /\ t.altitude > 5
      [] kind = "landing" -> ~t.armed /\ t.altitude # 0 /\ t.altitude < 2
      [] kind = "battery_low" -> t.battery # 0 /\ t.battery < 20
      [] OTHER -> t.mode # "" /\ t.mode # "UNKNOWN"

\* lastEventTimestamps.get(sessionId), {} when absent; lastByType[k] || 0.
lastByTypeOf(stamps, sessionId) ==
    IF sessionId \in DOMAIN stamps THEN stamps[sessionId]
    ELSE [k \in DerivedKinds |-> 0]

\* The trigger holds and the cooldown of the kind has passed.
Due(lastByType, kind, t, ms) ==
    Trigger(kind, t) /\ ms - lastByType[kind] >= EVENT_COOLDOWN_MS

\* The synchronous part of updateSession: the events pushed, in order, and
\* the timestamps it records for them.
derivedEvents(lastByType, t, ms) ==
    SelectSeq(KindOrder, LAMBDA k : Due(lastByType, k, t, ms))
stamped(lastByType, t, ms) ==
    [k \in DerivedKinds |-> IF Due(lastByType, k, t, ms) THEN ms ELSE lastByType[k]]

\* Battery levels are percentages; Null is a column not yet written.
MaxBattery == 100
BatteryLevels == {0, MaxBattery \div 2, MaxBattery}
Null == "null"
Task(op, sessionId, events, pc) ==
    [op |-> op, sessionId |-> sessionId, events |-> events, pc |-> pc]
EventRow(sessionId, eventType, timestamp) ==
    [sessionId |-> sessionId, eventType |-> eventType, timestamp |-> timestamp]

\* A task after one of its events was handled (written, dropped or skipped).
afterEvent(ts, i) ==
    IF Len(ts[i].events) > 1
    THEN [ts EXCEPT ![i].events = Tail(@), ![i].pc = "find"]
    ELSE RemoveAt(ts, i)

\* The clock advances.
Tick ==
    /\ now < LastTick
    /\ now' = now + ClockStep
    /\ UNCHANGED <<hubVars, mgrVars, links, crashed, obsVars, codecVars, bufVars, User, appVars, activeSessions,
                   lastEventTimestamps, droneSession, droneEvent, tasks>>

\* startSession: the row is created with status 'active', the session is
\* put in activeSessions and the session_started event is handed to
\* logEvent.  Nothing is checked about the drone's other sessions.
startSession(sessionId, droneId, startBattery) ==
    /\ sessionId \notin DOMAIN droneSession
    /\ Len(tasks) < MaxTasks
    /\ droneSession' = With(droneSession, sessionId,
                            [droneId |-> droneId, status |-> "active",
                             startBattery |-> startBattery, endBattery |-> Null,
                             batteryUsed |-> Null])
    /\ activeSessions' = With(activeSessions, sessionId,
                              [droneId |-> droneId, startBattery |-> startBattery])
    /\ tasks' = Append(tasks, Task("start", sessionId, <<"session_started">>, "write"))
    /\ UNCHANGED <<hubVars, mgrVars, links, crashed, obsVars, codecVars, bufVars, User, appVars, now,
                   lastEventTimestamps, droneEvent>>

\* endSession, up to its first await: null when the session is not in
\* activeSessions, else the row is looked up.
endSession(sessionId, endBattery) ==
    /\ sessionId \in DOMAIN activeSessions
    /\ Len(tasks) < MaxTasks
    /\ tasks' = Append(tasks, Task("end", sessionId, <<"session_ended">>, "find")
                              @@ [sessionData |-> activeSessions[sessionId],
                                  endBattery |-> endBattery])
    /\ UNCHANGED <<hubVars, mgrVars, links, crashed, obsVars, codecVars, bufVars, User, appVars, now, activeSessions,
                   lastEventTimestamps, droneSession, droneEvent>>

\* endSession after findFirst: null when there is no row, else the update
\* is issued.
endSessionFound(i) ==
    /\ i \in 1..Len(tasks)
    /\ tasks[i].op = "end" /\ tasks[i].pc = "find"
    /\ tasks' = IF tasks[i].sessionId \in DOMAIN droneSession
                THEN [tasks EXCEPT ![i].pc = "update"]
                ELSE RemoveAt(tasks, i)
    /\ UNCHANGED <<hubVars, mgrVars, links, crashed, obsVars, codecVars, bufVars, User, appVars, now, activeSessions,
                   lastEventTimestamps, droneSession, droneEvent>>

\* endSession after the update: the row is 'completed' with batteryUsed the
\* plain difference start - end, the session leaves
\* activeSessions and the session_ended event is handed to logEvent.
endSessionUpdated(i) ==
    /\ i \in 1..Len(tasks)
    /\ tasks[i].op = "end" /\ tasks[i].pc = "update"
    /\ LET batteryUsed == tasks[i].sessionData.startBattery - tasks[i].endBattery
       IN droneSession' = [droneSession EXCEPT ![tasks[i].sessionId] =
                              [@ EXCEPT !.status = "completed",
                                        !.endBattery = tasks[i].endBattery,
                                        !.batteryUsed = batteryUsed]]
    /\ activeSessions' = Without(activeSessions, tasks[i].sessionId)
    /\ tasks' = [tasks EXCEPT ![i].pc = "write"]
    /\ UNCHANGED <<hubVars, mgrVars, links, crashed, obsVars, codecVars, bufVars, User, appVars, now,
                   lastEventTimestamps, droneEvent>>

\* The drone of a session, as updateSession's sessionData has it.
activeSessionDrone(sessionId) ==
    IF sessionId \in DOMAIN activeSessions THEN activeSessions[sessionId].droneId ELSE NoDrone

\* updateSession, up to its first await: return when the session is not in
\* activeSessions; else derive the events under the cooldown, record their
\* timestamps, and start writing them.
updateSession(sessionId, telemetry) ==
    /\ sessionId \in DOMAIN activeSessions
    /\ LET lastByType == lastByTypeOf(lastEventTimestamps, sessionId)
           events == derivedEvents(lastByType, telemetry, now)
       IN /\ lastEventTimestamps' = With(lastEventTimestamps, sessionId,
                                         stamped(lastByType, telemetry, now))
          /\ IF events = << >> THEN tasks' = tasks
             ELSE /\ Len(tasks) < MaxTasks
                  /\ tasks' = Append(tasks, Task("update", sessionId, events, "find"))
    /\ UNCHANGED <<hubVars, mgrVars, links, crashed, obsVars, codecVars, bufVars, User, appVars, now, activeSessions,
                   droneSession, droneEvent>>

\* updateSession after findFirst({ where: { sessionId } }): the event is
\* skipped when there is no row; the row's status is not looked at.
updateSessionFound(i) ==
    /\ i \in 1..Len(tasks)
    /\ tasks[i].op = "update" /\ tasks[i].pc = "find"
    /\ tasks' = IF tasks[i].sessionId \in DOMAIN droneSession
                THEN [tasks EXCEPT ![i].pc = "write"]
                ELSE afterEvent(tasks, i)
    /\ UNCHANGED <<hubVars, mgrVars, links, crashed, obsVars, codecVars, bufVars, User, appVars, now, activeSessions,
                   lastEventTimestamps, droneSession, droneEvent>>

\* updateSession when findFirst itself fails (e.g. a busy timeout): the await
\* in the write loop is outside every try, so the call rejects and the events
\* not yet written are abandoned.  n counts the events after the current one.
updateSessionFindFails(i) ==
    /\ i \in 1..Len(tasks)
    /\ tasks[i].op = "update" /\ tasks[i].pc = "find"
    /\ tasks' = RemoveAt(tasks, i)
    /\ lastOp' = Op("updateSessionFindFails", 0, NoUser, activeSessionDrone(tasks[i].sessionId),
                    NoLink, Len(tasks[i].events) - 1)
    /\ lastResult' = FALSE
    /\ lastSent' = NoSent
    /\ lastDatagram' = << >>
    /\ UNCHANGED <<hubVars, mgrVars, links, crashed, codecVars, bufVars, User, appVars, now, activeSessions,
                   lastEventTimestamps, droneSession, droneEvent>>

\* logEvent: droneEvent.create succeeds; the row is stamped by the store.
logEvent(i) ==
    /\ i \in 1..Len(tasks)
    /\ tasks[i].pc = "write"
    /\ Len(droneEvent) < MaxEvents
    /\ droneEvent' = Append(droneEvent,
                            EventRow(tasks[i].sessionId, Head(tasks[i].events), now))
    /\ tasks' = afterEvent(tasks, i)
    /\ UNCHANGED <<hubVars, mgrVars, links, crashed, obsVars, codecVars, bufVars, User, appVars, now, activeSessions,
                   lastEventTimestamps, droneSession>>

\* logEvent: droneEvent.create fails with P1008; the error is swallowed and
\* the event is lost.
logEventTimeout(i) ==
    /\ i \in 1..Len(tasks)
    /\ tasks[i].pc = "write"
    /\ tasks' = afterEvent(tasks, i)
    /\ UNCHANGED <<hubVars, mgrVars, links, crashed, obsVars, codecVars, bufVars, User, appVars, now, activeSessions,
                   lastEventTimestamps, droneSession, droneEvent>>

(***************************************************************************)
(* Password reset of the auth routes.                                      *)
(***************************************************************************)
\* POST /auth/send-reset-password-mail: 400 for an unknown email; else a
\* fresh OTP is generated and its parseInt stored in the user's row.
sendResetPasswordMail(email, random) ==
    /\ ~crashed
    /\ IF email \notin DOMAIN User
       THEN /\ User' = User
            /\ lastResult' = FALSE
       ELSE /\ User' = [User EXCEPT ![email].resetPasswordOtp = Number(generateOtp(random))]
            /\ lastResult' = TRUE
    /\ lastOp' = Op("sendResetPasswordMail", 0, email, NoDrone, NoLink, 0)
    /\ lastSent' = NoSent
    /\ lastDatagram' = << >>
    /\ UNCHANGED <<hubVars, mgrVars, links, crashed, sessVars, codecVars, bufVars, appVars>>

\* POST /auth/verify-otp: the row with this email and resetPasswordOtp =
\* Number(otp) is looked up; 401 when there is none, else a reset token for
\* the user is signed and returned (lastResult).
verifyOtp(email, otp) ==
    /\ ~crashed
    /\ lastResult' = (email \in DOMAIN User /\ User[email].resetPasswordOtp = Number(otp))
    /\ lastOp' = Op("verifyOtp", 0, email, NoDrone, NoLink, 0) @@ [otp |-> otp]
    /\ lastSent' = NoSent
    /\ lastDatagram' = << >>
    /\ UNCHANGED <<hubVars, mgrVars, links, crashed, sessVars, codecVars, bufVars, User, appVars>>

(***************************************************************************)
(* TelemetryService: the batching buffer and its flushes.                  *)
(***************************************************************************)
\* flushBuffer up to its await: nothing when the buffer is empty, else
\* createMany is called with the buffer's contents of that moment.
flushBuffer(calls, buffer) == IF buffer = << >> THEN calls ELSE Append(calls, buffer)

\* storeTelemetry: push the sample; flush at once when the buffer holds
\* batchSize samples, else (re)arm the one second timer.
storeTelemetry ==
    /\ nextSample <= MaxSamples
    /\ LET buffer == Append(telemetryBuffer, nextSample)
       IN /\ telemetryBuffer' = buffer
          /\ IF Len(buffer) >= batchSize
             THEN /\ Len(flushing) < MaxFlushes
                  /\ flushing' = flushBuffer(flushing, buffer)
                  /\ batchTimeout' = batchTimeout
             ELSE /\ flushing' = flushing
                  /\ batchTimeout' = "pending"
    /\ nextSample' = nextSample + 1
    /\ UNCHANGED <<hubVars, mgrVars, links, crashed, obsVars, sessVars, codecVars, appVars,
                   User, telemetryData>>

\* The timer armed by storeTelemetry fires: flushBuffer is called.
batchTimeoutFires ==
    /\ batchTimeout = "pending"
    /\ Len(flushing) < MaxFlushes
    /\ batchTimeout' = "fired"
    /\ flushing' = flushBuffer(flushing, telemetryBuffer)
    /\ UNCHANGED <<hubVars, mgrVars, links, crashed, obsVars, sessVars, codecVars, appVars,
                   User, telemetryBuffer, telemetryData, nextSample>>

\* createMany of a flush succeeds: its rows are in the table; flushBuffer
\* goes on: the buffer is replaced by [], the timer is cleared.
createManyDone(i) ==
    /\ i \in 1..Len(flushing)
    /\ telemetryData' = [k \in Samples |->
                            telemetryData[k] +
                            Cardinality({j \in 1..Len(flushing[i]) : flushing[i][j] = k})]
    /\ telemetryBuffer' = << >>
    /\ batchTimeout' = "null"
    /\ flushing' = RemoveAt(flushing, i)
    /\ UNCHANGED <<hubVars, mgrVars, links, crashed, obsVars, sessVars, codecVars, appVars,
                   User, nextSample>>

(***************************************************************************)
(* Encoder and decoder of one link, for any target ids.                    *)
(***************************************************************************)
\* setMode builds its SET_MODE frame.
EncodeSetMode(systemId, mode) ==
    /\ modes(mode) # -1
    /\ wire' = encode(buildSetModePacket([NewLink EXCEPT !.systemId = systemId],
                                         modes(mode)))
    /\ decoded' = NoDecoded
    /\ UNCHANGED <<hubVars, mgrVars, links, crashed, obsVars, sessVars, appVars, bufVars, User>>

\* arm / disarm build their COMMAND_LONG frame.
EncodeCommandLong(systemId, componentId, param1) ==
    /\ wire' = encode(buildCommandLongPacket(
                   [NewLink EXCEPT !.systemId = systemId, !.componentId = componentId],
                   MAV_CMD_COMPONENT_ARM_DISARM, param1))
    /\ decoded' = NoDecoded
    /\ UNCHANGED <<hubVars, mgrVars, links, crashed, obsVars, sessVars, appVars, bufVars, User>>

\* The frame on the wire comes back to the program's own decoder.
Loopback ==
    /\ wire # NoWire
    /\ decoded' = rawFrame(wire.bytes)
    /\ UNCHANGED <<hubVars, mgrVars, links, crashed, obsVars, sessVars, appVars, bufVars, User, wire>>

(***************************************************************************)
(* Specifications.                                                         *)
(***************************************************************************)
ManagerLinks == 1..MaxLinks
SitlHost == CHOOSE h \in Hosts : TRUE
SitlPort == CHOOSE p \in SrcPorts : TRUE
\* The Drone table: the owner stored with every drone row.  The routes call
\* initializeDrone only with the row's own userId.
DroneOwner(d) == ((d - 1) % MaxUsers) + 1
UserInputs == Users \cup {NoUser}

ChannelStep ==
    \E ws \in Channels :
        \/ handleConnection(ws)
        \/ ChannelClosing(ws)
        \/ ChannelClose(ws)
        \/ \E userId \in UserInputs, isAdmin \in BOOLEAN, bearer \in Tokens :
                handleAuthentication(ws, userId, isAdmin, bearer)

\* Fan-out: channels, the manager's registry and its links' telemetry,
\* operator messages.
NextFanout ==
    \/ ChannelStep
    \/ \E d \in Drones : initializeDrone(d, DroneOwner(d), "udp")
    \/ \E d \in Drones : connectDrone(d)
    \/ \E d \in Drones : disconnectDrone(d)
    \/ \E l \in ManagerLinks : Listening(l)
    \/ \E l \in ManagerLinks : UdpMessage(l, SitlHost, SitlPort, HeartbeatArmed)
    \/ \E d \in Drones \cup {NoDrone} : sendMessage(d)

SpecFanout == Init /\ [][NextFanout]_vars

\* Hub: channels and their inbound messages, the singleton link the hub
\* listens to, and one managed drone for the channel commands.
NextHub ==
    \/ \E ws \in Channels : handleConnection(ws) \/ ChannelClose(ws)
    \/ \E ws \in Channels, userId \in UserInputs, isAdmin \in BOOLEAN,
          bearer \in {NoUser, AdminUser} :
            handleAuthentication(ws, userId, isAdmin, bearer)
    \/ \E ws \in Channels : handlePing(ws)
    \/ \E ws \in Channels, protocol \in {"udp", "tcp"} : handleConnectRequest(ws, protocol)
    \/ \E ws \in Channels : handleDisconnectRequest(ws)
    \/ \E ws \in Channels, cmd \in Commands : handleCommandRequest(ws, cmd, "GUIDED")
    \/ \E d \in Drones : initializeDrone(d, DroneOwner(d), "udp")
    \/ \E d \in Drones : connectDrone(d)
    \/ \E l \in LinkIds : Listening(l)
    \/ SocketError(Singleton)
    \/ \E l \in LinkIds : UdpMessage(l, SitlHost, SitlPort, PositionFrame)

SpecHub == Init /\ [][NextHub]_vars

\* Link: the singleton link driven through routes/drone.ts and its socket.
NextLink ==
    \/ \E protocol \in Protocols : RouteConnect(protocol)
    \/ RouteDisconnect
    \/ \E cmd \in Commands, mode \in ModeNames : RouteCommand(cmd, mode)
    \/ Listening(Singleton)
    \/ SocketError(Singleton)
    \/ \E host \in Hosts, port \in SrcPorts, dg \in Datagrams :
            UdpMessage(Singleton, host, port, dg)

SpecLink == Init /\ [][NextLink]_vars

TaskSlots == 1..MaxTasks
TelemetrySamples == {TakeoffSample, LowBatterySample}

\* The store's answers to the suspended calls.
StoreStep ==
    \E i \in TaskSlots :
        \/ endSessionFound(i)
        \/ endSessionUpdated(i)
        \/ updateSessionFound(i)
        \/ logEvent(i)
        \/ logEventTimeout(i)

\* Session engine, several sessions: calls of SessionService for any
\* session id and the store's answers, at one instant of the clock.
NextSession ==
    \/ \E sessionId \in SessionIds, d \in Drones : startSession(sessionId, d, MaxBattery)
    \/ \E sessionId \in SessionIds : endSession(sessionId, 0)
    \/ \E sessionId \in SessionIds : updateSession(sessionId, TakeoffSample)
    \/ StoreStep

SpecSession == Init /\ [][NextSession]_vars

\* Session engine, one session over time: its calls, the store's answers
\* and the clock.
FirstSession == CHOOSE sessionId \in SessionIds : TRUE
FirstDrone == CHOOSE d \in Drones : TRUE
NextDebounce ==
    \/ Tick
    \/ startSession(FirstSession, FirstDrone, MaxBattery)
    \/ endSession(FirstSession, 0)
    \/ \E t \in TelemetrySamples : updateSession(FirstSession, t)
    \/ StoreStep

SpecDebounce == Init /\ [][NextDebounce]_vars

\* Codec: frames built by the encoder and read back by the decoder.
AllModeNames == {"STABILIZE", "ACRO", "ALT_HOLD", "AUTO", "GUIDED", "LOITER",
                 "RTL", "CIRCLE", "LAND", "POSHOLD", "BRAKE"}
NextCodec ==
    \/ \E systemId \in SystemIds, mode \in AllModeNames : EncodeSetMode(systemId, mode)
    \/ \E systemId \in SystemIds, componentId \in SystemIds, param1 \in {0, 1} :
            EncodeCommandLong(systemId, componentId, param1)
    \/ Loopback

SpecCodec == Init /\ [][NextCodec]_vars

\* Sessions started and ended at any battery levels.
NextBattery ==
    \/ \E sessionId \in SessionIds, d \in Drones, startBattery \in BatteryLevels :
            startSession(sessionId, d, startBattery)
    \/ \E sessionId \in SessionIds, endBattery \in BatteryLevels :
            endSession(sessionId, endBattery)
    \/ \E i \in TaskSlots :
            endSessionFound(i) \/ endSessionUpdated(i) \/ logEvent(i) \/ logEventTimeout(i)
SpecBattery == Init /\ [][NextBattery]_vars

\* A restart over the tables of the previous process: the startup steps,
\* and the traffic the server takes once it is listening.
NextRestart ==
    \/ Listen
    \/ RecoveryDone
    \/ AutoConnect
    \/ \E ws \in Channels : boot.listening /\ handleConnection(ws)
    \/ \E ws \in Channels : boot.listening /\ ChannelClose(ws)
    \/ \E userId \in Users : boot.listening /\ UserStats(userId)
    \/ boot.listening /\ RouteDisconnect
    \/ Listening(Singleton)
SpecRestart == InitRestart /\ [][NextRestart]_vars

\* A drone's life in the manager next to its session in the session engine.
NextLifecycle ==
    \/ \E d \in Drones, userId \in Users : initializeDrone(d, userId, "udp")
    \/ \E d \in Drones : connectDrone(d)
    \/ \E d \in Drones : disconnectDrone(d)
    \/ \E l \in ManagerLinks : Listening(l)
    \/ \E d \in Drones : startSession(FirstSession, d, MaxBattery)
    \/ endSession(FirstSession, MaxBattery \div 2)
    \/ updateSession(FirstSession, LandingSample)
    \/ StoreStep
SpecLifecycle == Init /\ [][NextLifecycle]_vars

\* A udp link that never hears a HEARTBEAT: the requests of routes/drone.ts,
\* the socket's events, datagrams other than heartbeats, and time passing.
\* The event loop delivers the bind's 'listening' event and time passes.
SilentDatagrams == {dg \in Datagrams : dg.msgId # MSG_HEARTBEAT \/ dg.magic # MAGIC_V2}
NextWatchdog ==
    \/ \E protocol \in {"udp", "udpin"} : RouteConnect(protocol)
    \/ RouteDisconnect
    \/ \E cmd \in Commands : RouteCommand(cmd, "GUIDED")
    \/ Listening(Singleton)
    \/ \E host \in Hosts, port \in SrcPorts, dg \in SilentDatagrams :
            UdpMessage(Singleton, host, port, dg)
    \/ HeartbeatWindow(Singleton)
SpecWatchdog ==
    /\ Init /\ [][NextWatchdog]_vars
    /\ WF_vars(Listening(Singleton))
    /\ WF_vars(HeartbeatWindow(Singleton))

\* Connects and disconnects at both layers: the singleton link through
\* routes/drone.ts and the manager's links through the drone manager.
NextDisconnect ==
    \/ RouteConnect("udp")
    \/ RouteDisconnect
    \/ \E l \in LinkIds : Listening(l)
    \/ UdpMessage(Singleton, SitlHost, SitlPort, PositionFrame)
    \/ \E d \in Drones, userId \in Users : initializeDrone(d, userId, "udp")
    \/ \E d \in Drones : connectDrone(d)
    \/ \E d \in Drones : disconnectDrone(d)
SpecDisconnect == Init /\ [][NextDisconnect]_vars

\* One session whose every update reports the same mode, over time.
NextSameMode ==
    \/ Tick
    \/ startSession(FirstSession, FirstDrone, MaxBattery)
    \/ updateSession(FirstSession, SameModeSample)
    \/ \E i \in TaskSlots : updateSessionFound(i) \/ logEvent(i) \/ logEventTimeout(i)
SpecSameMode == Init /\ [][NextSameMode]_vars

\* One session whose updates derive two events each, with a store whose
\* lookups and writes can fail.
NextStoreFailure ==
    \/ Tick
    \/ startSession(FirstSession, FirstDrone, MaxBattery)
    \/ updateSession(FirstSession, LowBatterySample)
    \/ \E i \in TaskSlots : updateSessionFound(i) \/ updateSessionFindFails(i)
    \/ \E i \in TaskSlots : logEvent(i) \/ logEventTimeout(i)
SpecStoreFailure == Init /\ [][NextStoreFailure]_vars

\* The singleton link hearing vehicles of any system and component id, and
\* the commands of routes/drone.ts.
NextVehicle ==
    \/ RouteConnect("udp")
    \/ RouteDisconnect
    \/ \E cmd \in Commands : RouteCommand(cmd, "GUIDED")
    \/ Listening(Singleton)
    \/ \E host \in Hosts, port \in SrcPorts, sysid \in 1..MaxSystemId,
          compid \in 1..MaxComponentId :
            UdpMessage(Singleton, host, port, FromVehicle(HeartbeatDisarmed, sysid, compid))
SpecVehicle == Init /\ [][NextVehicle]_vars

\* The two command surfaces side by side: one channel and its requests, the
\* routes of routes/drone.ts, and the links both act on.
FirstChannel == CHOOSE ws \in Channels : TRUE
NextSurfaces ==
    \/ handleConnection(FirstChannel)
    \/ \E userId \in Users : handleAuthentication(FirstChannel, userId, FALSE, NoUser)
    \/ \E cmd \in Commands : handleCommandRequest(FirstChannel, cmd, "GUIDED")
    \/ RouteConnect("udp")
    \/ \E cmd \in Commands : RouteCommand(cmd, "GUIDED")
    \/ \E d \in Drones : initializeDrone(d, DroneOwner(d), "udp")
    \/ \E d \in Drones : connectDrone(d)
    \/ \E l \in LinkIds : Listening(l)
    \/ \E l \in LinkIds : UdpMessage(l, SitlHost, SitlPort, PositionFrame)
SpecSurfaces == Init /\ [][NextSurfaces]_vars

\* The singleton link receiving full and truncated frames, with a channel
\* listening to what the hub publishes.
NextTruncation ==
    \/ handleConnection(FirstChannel)
    \/ RouteConnect("udp")
    \/ RouteDisconnect
    \/ Listening(Singleton)
    \/ \E host \in Hosts, port \in SrcPorts,
          dg \in {HeartbeatArmed, HeartbeatDisarmed, PositionFrame,
                  TruncatedHeartbeat, TruncatedPosition} :
            UdpMessage(Singleton, host, port, dg)
SpecTruncation == Init /\ [][NextTruncation]_vars

\* The singleton link hearing datagrams, well-formed or not, from a vehicle
\* whose source port can change.
VehiclePorts == SrcPorts \cup {p + 1 : p \in SrcPorts}
NextPeer ==
    \/ RouteConnect("udp")
    \/ RouteDisconnect
    \/ \E cmd \in Commands : RouteCommand(cmd, "GUIDED")
    \/ Listening(Singleton)
    \/ \E host \in Hosts, port \in VehiclePorts,
          dg \in {PositionFrame, Garbage, CorruptHeartbeat} :
            UdpMessage(Singleton, host, port, dg)
SpecPeer == Init /\ [][NextPeer]_vars

\* One session whose every update reports a disarmed vehicle below 2 m with a
\* battery below 20 %, the values 0 included.
FloorSamples == {Telemetry(FALSE, altitude, battery, "") : altitude \in {0, 1}, battery \in {0, 15}}
NextFloor ==
    \/ Tick
    \/ startSession(FirstSession, FirstDrone, MaxBattery)
    \/ \E t \in FloorSamples : updateSession(FirstSession, t)
    \/ \E i \in TaskSlots : updateSessionFound(i) \/ logEvent(i) \/ logEventTimeout(i)
SpecFloor == Init /\ [][NextFloor]_vars

\* The singleton link hearing BATTERY_STATUS messages of every percentage and
\* of the value "unknown".
BatteryRemaining == -1..MaxBattery
NextBatteryStatus ==
    \/ RouteConnect("udp")
    \/ Listening(Singleton)
    \/ \E host \in Hosts, port \in SrcPorts, b \in BatteryRemaining :
          UdpMessage(Singleton, host, port, BatteryStatus(b))
SpecBatteryStatus == Init /\ [][NextBatteryStatus]_vars

\* A udp link that suffers socket errors: the requests of routes/drone.ts,
\* the socket's events and datagrams, and time passing.  The event loop
\* delivers the bind's 'listening' event and time passes.
NextReconnect ==
    \/ RouteConnect("udp")
    \/ RouteDisconnect
    \/ Listening(Singleton)
    \/ SocketError(Singleton)
    \/ \E host \in Hosts, port \in SrcPorts, dg \in {HeartbeatArmed, PositionFrame} :
            UdpMessage(Singleton, host, port, dg)
    \/ ReconnectWindow(Singleton)
SpecReconnect ==
    /\ Init /\ [][NextReconnect]_vars
    /\ WF_vars(Listening(Singleton))
    /\ WF_vars(ReconnectWindow(Singleton))

\* One session updated by overlapping updateSession calls within one cooldown
\* period: the clock stands still, so every kind of event is derived at most
\* once and the calls still writing hold different events.
OrderSamples == {Telemetry(TRUE, 10, 15, ""), Telemetry(TRUE, 10, 15, "LAND")}
NextOrder ==
    \/ startSession(FirstSession, FirstDrone, MaxBattery)
    \/ \E t \in OrderSamples : updateSession(FirstSession, t)
    \/ \E i \in TaskSlots : updateSessionFound(i) \/ logEvent(i) \/ logEventTimeout(i)
SpecOrder == Init /\ [][NextOrder]_vars

\* The manager's links and their sockets' events, errors included, with a
\* channel subscribed to the hub.
NextLinkError ==
    \/ handleConnection(FirstChannel)
    \/ \E d \in Drones, userId \in Users : initializeDrone(d, userId, "udp")
    \/ \E d \in Drones : connectDrone(d)
    \/ \E d \in Drones : disconnectDrone(d)
    \/ \E l \in ManagerLinks : Listening(l)
    \/ \E l \in ManagerLinks : SocketError(l)
    \/ \E l \in ManagerLinks, dg \in {HeartbeatArmed, PositionFrame} :
            UdpMessage(l, SitlHost, SitlPort, dg)
SpecLinkError == Init /\ [][NextLinkError]_vars

\* The manager's registry with several records per user, some connected, and
\* the route that looks a user's connected drone up.
MaxRecords == 3
Records == 1..MaxRecords
NextLookup ==
    \/ \E d \in Records, userId \in Users : initializeDrone(d, userId, "udp")
    \/ \E d \in Records : connectDrone(d)
    \/ \E userId \in Users : UserDisconnect(userId)
SpecLookup == Init /\ [][NextLookup]_vars

\* The telemetry store: samples arriving, the timer, and the store's answers.
NextTelemetry ==
    \/ storeTelemetry
    \/ batchTimeoutFires
    \/ \E i \in 1..MaxFlushes : createManyDone(i)
SpecTelemetry == Init /\ [][NextTelemetry]_vars

\* The manager's drones connected any number of times and disconnected,
\* while their links' sockets bind and receive datagrams.
NextStaleLink ==
    \/ \E d \in Drones, userId \in Users : initializeDrone(d, userId, "udp")
    \/ \E d \in Drones : connectDrone(d)
    \/ \E d \in Drones : disconnectDrone(d)
    \/ \E l \in ManagerLinks : Listening(l)
    \/ \E l \in ManagerLinks, dg \in {HeartbeatArmed, PositionFrame} :
            UdpMessage(l, SitlHost, SitlPort, dg)
SpecStaleLink == Init /\ [][NextStaleLink]_vars

\* Commands on a channel: the channel authenticates as any user while the
\* registry holds records of several users, connected or not.
CommandRecords == 1..(MaxRecords - 1)
NextCommand ==
    \/ handleConnection(FirstChannel)
    \/ \E userId \in UserInputs : handleAuthentication(FirstChannel, userId, FALSE, NoUser)
    \/ \E cmd \in Commands, mode \in {"GUIDED", ""} :
            handleCommandRequest(FirstChannel, cmd, mode)
    \/ \E d \in CommandRecords, userId \in Users : initializeDrone(d, userId, "udp")
    \/ \E d \in CommandRecords : connectDrone(d)
    \/ \E l \in ManagerLinks : Listening(l)
    \/ \E l \in ManagerLinks : UdpMessage(l, SitlHost, SitlPort, PositionFrame)
SpecCommand == Init /\ [][NextCommand]_vars

\* Password resets: one user asks for OTPs, anybody submits OTPs for any
\* email, known or not.
Requester == CHOOSE u \in Users : TRUE
OtpInputs == {<< >>} \cup {generateOtp(random) : random \in 0..MaxOtp}
NextReset ==
    \/ \E email \in {Requester, NoUser}, random \in 0..MaxOtp :
            sendResetPasswordMail(email, random)
    \/ \E email \in UserInputs, otp \in OtpInputs : verifyOtp(email, otp)
SpecReset == Init /\ [][NextReset]_vars

\* The manager's own lifecycle: registerDrone, initializeDrone and
\* connectDrone for the ids registerDrone hands out, and the links' binds.
RegisteredIds == 1..MaxRegistrations
NextRegisterConnect ==
    \/ \E userId \in Users, uin \in Uins : registerDrone(userId, uin)
    \/ \E d \in RegisteredIds, userId \in Users : initializeDrone(d, userId, "udp")
    \/ \E d \in RegisteredIds : connectDrone(d)
    \/ \E l \in ManagerLinks : Listening(l)
SpecRegisterConnect == Init /\ [][NextRegisterConnect]_vars

\* Registrations: both register routes, with the same or different uin, and
\* the store answering the user route's awaits in any order.
NextRegister ==
    \/ \E userId \in Users, uin \in Uins : registerDrone(userId, uin)
    \/ \E userId \in Users, uin \in Uins : UserRegisterFind(userId, uin)
    \/ \E t \in TaskSlots : UserRegisterCreate(t)
    \/ \E t \in TaskSlots : UserRegisterConnect(t)
SpecRegister == Init /\ [][NextRegister]_vars

(***************************************************************************)
(* Properties.                                                             *)
(***************************************************************************)
\* The channel is registered, its socket is open and it has authenticated.
Authenticated(c) ==
    c \in DOMAIN clients /\ readyState[c] = "OPEN" /\ clients[c].authenticated
Received(c, type) == CountType(lastSent[c], type)

\* C1: every telemetry event a managed link emits, republished by the
\* manager for the owner A captured at connectDrone, is delivered to an open
\* channel if and only if the channel is authenticated and is an admin or
\* has userId = A; no other channel receives a telemetry frame.
C1_TelemetryFanout ==
    (lastOp.op = "UdpMessage" /\ lastOp.link # Singleton) =>
        \A c \in Channels :
            Received(c, "telemetry") =
                IF Authenticated(c)
                   /\ (clients[c].isAdmin \/ clients[c].userId = lastOp.user)
                THEN lastOp.n ELSE 0

\* A telemetry event reached its owner's channel and an admin's channel,
\* or its owner's channel and not another user's authenticated channel.
C1_Witness ==
    /\ lastOp.op = "UdpMessage" /\ lastOp.link # Singleton /\ lastOp.n > 0
    /\ \E c \in Channels :
          /\ Authenticated(c) /\ ~clients[c].isAdmin
          /\ clients[c].userId = lastOp.user
          /\ Received(c, "telemetry") = lastOp.n
    /\ \E c \in Channels :
          /\ Authenticated(c) /\ ~clients[c].isAdmin
          /\ clients[c].userId # lastOp.user
          /\ Received(c, "telemetry") = 0

\* C2: after an `auth` message that authenticated the channel, the
\* channel's userId and isAdmin are those the auth collaborator returns for
\* the bearer token presented with the message.
C2_IdentityFromToken ==
    (lastOp.op = "handleAuthentication" /\ lastResult
     /\ lastOp.ch \in DOMAIN clients) =>
        LET verified == getUserFromToken(lastOp.n)
            info == clients[lastOp.ch]
        IN /\ verified.ok
           /\ info.userId = verified.user_id
           /\ info.isAdmin => verified.is_admin

\* C3: a frame sent to a channel that has not authenticated is the initial
\* banner, the reply to its own auth attempt, or the error reply to its own
\* request; it is never a broadcast frame or an answer to a ping.
C3_UnauthenticatedReceivesNothing ==
    \A c \in Channels : \A i \in 1..Len(lastSent[c]) :
        ~lastSent[c][i].authed =>
            \/ lastSent[c][i].re \in {"banner", "auth"}
            \/ lastSent[c][i].type = "error" /\ lastSent[c][i].re \in {"command", "connect"}

ChannelCommandOps == {"handleConnectRequest", "handleDisconnectRequest"} \cup Commands

\* C4: a connect, disconnect, arm, disarm or set_mode message from a channel
\* that has not authenticated changes no link and no manager record, sends
\* no datagram, and is answered with an error frame.
C4_OnlyAuthenticatedCommands ==
    [][(/\ lastOp'.op \in ChannelCommandOps
        /\ lastOp'.ch \in DOMAIN clients
        /\ ~clients[lastOp'.ch].authenticated)
       => (/\ links' = links
           /\ connections' = connections
           /\ lastDatagram' = << >>
           /\ CountType(lastSent'[lastOp'.ch], "error") > 0)]_vars

\* C5: an operator message sent with target drone d is delivered once to
\* every open channel authenticated as the owner of d and to no other
\* channel; when d is unknown or not connected nothing is delivered.
C5_TargetedMessage ==
    (lastOp.op = "sendMessage" /\ lastOp.drone # NoDrone) =>
        \A c \in Channels :
            Received(c, "message") =
                IF lastResult /\ Authenticated(c) /\ clients[c].userId = lastOp.user
                THEN 1 ELSE 0

\* A targeted message reached its owner's channel and not an admin's
\* channel authenticated as another user.
C5_Witness ==
    /\ lastOp.op = "sendMessage" /\ lastOp.drone # NoDrone /\ lastResult
    /\ \E c \in Channels :
          Authenticated(c) /\ clients[c].userId = lastOp.user
          /\ Received(c, "message") = 1
    /\ \E c \in Channels :
          Authenticated(c) /\ clients[c].isAdmin /\ clients[c].userId # lastOp.user
          /\ Received(c, "message") = 0

\* C6: an operator message sent with no target drone is delivered exactly
\* once to every open authenticated channel, whatever drones are connected.
C6_BroadcastMessage ==
    (lastOp.op = "sendMessage" /\ lastOp.drone = NoDrone) =>
        \A c \in Channels :
            Received(c, "message") = IF Authenticated(c) THEN 1 ELSE 0

\* C7: no two sessions of activeSessions have the same droneId, and no two
\* rows of the store with status 'active' have the same droneId.
C7_OneActiveSessionPerDrone ==
    /\ \A s1, s2 \in DOMAIN activeSessions :
          s1 # s2 => activeSessions[s1].droneId # activeSessions[s2].droneId
    /\ \A s1, s2 \in DOMAIN droneSession :
          (s1 # s2 /\ droneSession[s1].status = "active"
                   /\ droneSession[s2].status = "active")
          => droneSession[s1].droneId # droneSession[s2].droneId

\* C8: two persisted events of the same session and the same derived kind
\* are at least one cooldown (3 s) apart.
C8_Debounce ==
    \A i, j \in 1..Len(droneEvent) :
        (/\ i < j
         /\ droneEvent[i].sessionId = droneEvent[j].sessionId
         /\ droneEvent[i].eventType = droneEvent[j].eventType
         /\ droneEvent[i].eventType \in DerivedKinds)
        => droneEvent[j].timestamp - droneEvent[i].timestamp >= EVENT_COOLDOWN_MS

\* C9: a derived event is never persisted for a session that has left
\* activeSessions and whose row is no longer 'active'.
C9_DerivedEventsWhileActive ==
    [][(/\ Len(droneEvent') > Len(droneEvent)
        /\ droneEvent'[Len(droneEvent')].eventType \in DerivedKinds)
       => LET sessionId == droneEvent'[Len(droneEvent')].sessionId
          IN \/ sessionId \in DOMAIN activeSessions
             \/ droneSession[sessionId].status = "active"]_vars

\* C10: arm, disarm or setMode on a link that has not received any datagram
\* returns false and sends no datagram, whether the link is connected,
\* still binding or not connected.
C10_PeerUnknown ==
    (/\ lastOp.op \in Commands
     /\ lastOp.link # NoLink
     /\ ~links[lastOp.link].everRx)
    => (lastResult = FALSE /\ lastDatagram = << >>)

\* A command was issued on the connected singleton link before any
\* datagram arrived, and failed.
C10_Witness ==
    /\ lastOp.op \in Commands
    /\ lastOp.link = Singleton
    /\ links[Singleton].connected
    /\ links[Singleton].connection = "listening"
    /\ ~links[Singleton].everRx
    /\ lastResult = FALSE
    /\ lastDatagram = << >>

\* C11: every datagram a command sends is addressed to the learned peer:
\* the host and the port from which the link's inbound frames were received.
C11_CommandsToLearnedPeer ==
    (lastOp.op \in Commands /\ lastOp.link # NoLink) =>
        \A i \in 1..Len(lastDatagram) :
            /\ lastDatagram[i].host = links[lastOp.link].remoteAddress
            /\ lastDatagram[i].port = links[lastOp.link].remotePort

\* C12: a received frame whose CRC bytes disagree with its contents is
\* discarded: it changes no field of the link's telemetry snapshot and
\* causes no telemetry event.
C12_CrcRejection ==
    [][(lastOp'.op = "UdpMessage" /\ ~lastOp'.frame.crc_ok)
       => (/\ links'[lastOp'.link].armed = links[lastOp'.link].armed
           /\ links'[lastOp'.link].mode = links[lastOp'.link].mode
           /\ lastOp'.n = 0)]_vars

\* C13: every frame the encoder emits (SET_MODE, COMMAND_LONG) is accepted
\* by the decoder's framing, which recovers the same message id and the
\* same payload bytes.
C13_RoundTrip ==
    (decoded # NoDecoded) =>
        /\ decoded.accepted
        /\ decoded.msgId = wire.msgId
        /\ decoded.payload = wire.payload

\* A COMMAND_LONG frame with param1 = 1 was built and read back.
C13_Witness ==
    /\ decoded # NoDecoded
    /\ decoded.of = wire.bytes
    /\ decoded.accepted
    /\ decoded.msgId = MSG_COMMAND_LONG
    /\ Len(decoded.payload) = 33
    /\ decoded.payload[4] = 63

\* C14: uin is unique: no two registrations answered with success carry the
\* same uin (a registration after a successful one with that uin fails, also
\* when the two run concurrently), and no two rows of the Drone table share a
\* uin.
C14_UinUnique ==
    /\ \A i, j \in 1..Len(registered) :
           i # j => registered[i].uin # registered[j].uin
    /\ \A i, j \in 1..Len(Drone) : i # j => Drone[i].uin # Drone[j].uin

\* C15: a session that has ended stores battery_used = start_battery -
\* end_battery when end_battery <= start_battery and 0 when end_battery >
\* start_battery; the stored value is never negative.
C15_BatteryUsedClamped ==
    \A sid \in DOMAIN droneSession :
        droneSession[sid].status = "completed" =>
            LET row == droneSession[sid]
            IN /\ row.batteryUsed =
                      (IF row.endBattery <= row.startBattery
                       THEN row.startBattery - row.endBattery ELSE 0)
               /\ row.batteryUsed >= 0

\* C16: after a restart no request and no channel connection is served
\* while a row of the Drone table is still 'connected' or 'flying': the
\* recovery has set every such row to 'offline' before traffic is accepted.
ServedOps == {"handleConnection", "ChannelClose", "UserStats", "RouteDisconnect"}
C16_RecoveryBeforeTraffic ==
    lastOp.op \in ServedOps => \A i \in 1..Len(Drone) : ~Operational(Drone[i])

\* C17: a disconnect of drone d ends its session: when disconnectDrone(d)
\* has removed d's record, no session of d is active any more, and the
\* session that was active is stored as completed if a landing was logged for
\* it and as aborted otherwise.
Landed(sid) ==
    \E i \in 1..Len(droneEvent) :
        droneEvent[i].sessionId = sid /\ droneEvent[i].eventType = "landing"
C17_DisconnectEndsSession ==
    [][(/\ lastOp'.op = "disconnectDrone"
        /\ lastOp'.drone \in DOMAIN connections
        /\ lastOp'.drone \notin DOMAIN connections')
       => \A sid \in DOMAIN droneSession :
             (droneSession[sid].droneId = lastOp'.drone /\ droneSession[sid].status = "active")
             => /\ sid \notin DOMAIN activeSessions'
                /\ droneSession'[sid].status =
                       (IF Landed(sid) THEN "completed" ELSE "aborted")]_vars

\* C18: a udp link on which the heartbeat window has passed without any
\* HEARTBEAT does not stay connected: it eventually has connected = FALSE.
C18_HeartbeatWatchdog ==
    (lastOp.op = "HeartbeatWindow" /\ links[Singleton].connected)
        ~> ~links[Singleton].connected

\* C19: connectDrone is idempotent for a connected drone: at any time a drone
\* has at most one live link, i.e. at most one MAVLinkService whose socket is
\* open and whose telemetry is republished for the drone; an earlier link of
\* the drone is never left running next to the new one.
LiveLinks(d) ==
    {l \in ManagerLinks : /\ links[l].exists
                          /\ links[l].subDrone = d
                          /\ links[l].connection \in {"binding", "listening"}}
C19_ConnectIdempotent ==
    \A d \in Drones : Cardinality(LiveLinks(d)) <= 1

\* C20: disconnect is idempotent at both layers: a disconnectDrone(d) that
\* directly follows a disconnectDrone(d), and a disconnect of the singleton
\* link that directly follows one, leave the registry and every link exactly
\* as the first call left them and do not fail; after either, the link is
\* closed with connected = FALSE and d is absent from the registry.
C20_DisconnectIdempotent ==
    [][/\ (/\ lastOp.op = "disconnectDrone" /\ lastOp'.op = "disconnectDrone"
           /\ lastOp'.drone = lastOp.drone)
          => /\ connections' = connections /\ connOrder' = connOrder
             /\ links' = links
             /\ lastOp'.drone \notin DOMAIN connections'
             /\ ~crashed' /\ lastResult'
       /\ (lastOp.op = "RouteDisconnect" /\ lastOp'.op = "RouteDisconnect")
          => /\ links' = links
             /\ links'[Singleton].connection = "null" /\ ~links'[Singleton].connected
             /\ ~crashed' /\ lastResult']_vars
\* A second disconnectDrone(d) has run on a drone whose link was closed by the
\* first, next to a singleton link that was live and is closed.
C20_Witness ==
    /\ lastOp.op = "disconnectDrone" /\ lastOp.n = 0
    /\ \E l \in ManagerLinks : /\ links[l].exists /\ links[l].subDrone = lastOp.drone
                                /\ links[l].connection = "null"
    /\ links[Singleton].connection = "null"
    /\ links[Singleton].remoteAddress # NoAddress

\* C21: a mode_change event is derived only when the mode of an update
\* differs from the mode of the previous update of the session: when every
\* update of a session reports the same mode, at most the first one (which
\* has no previous update) persists a mode_change event.
C21_ModeChangeOnlyOnChange ==
    \A sid \in SessionIds :
        Cardinality({i \in 1..Len(droneEvent) :
                        /\ droneEvent[i].sessionId = sid
                        /\ droneEvent[i].eventType = "mode_change"}) <= 1

\* C22: a transient failure of the store while the derived events of an
\* update are persisted (the session lookup or the write) never propagates
\* out of updateSession and never stops it: the call completes normally and
\* no later event of the same update is abandoned.
C22_StorageFailureContained ==
    lastOp.op = "updateSessionFindFails" => (lastResult /\ lastOp.n = 0)

\* C23: the COMMAND_LONG frame sent by arm and disarm has command 400 and
\* confirmation 0 and is addressed to the vehicle heard on the link:
\* target_system and target_component are the sysid and compid of the
\* headers of the link's inbound frames, whatever they are.
C23_TargetIsObservedVehicle ==
    (lastOp.op \in {"arm", "disarm"} /\ lastOp.link # NoLink) =>
        \A i \in 1..Len(lastDatagram) :
            LET packet == lastDatagram[i].packet
            IN /\ packet.msgid = MSG_COMMAND_LONG
               /\ packet.command = MAV_CMD_COMPONENT_ARM_DISARM
               /\ packet.confirmation = 0
               /\ packet.target_system = links[lastOp.link].rxSysid
               /\ packet.target_component = links[lastOp.link].rxCompid

\* C24: the request surface and the channel are consistent: every arm,
\* disarm or set-mode that sends a command on a vehicle link, through either
\* surface, is
\* issued by an authenticated principal and acts on the link the drone
\* manager holds for a drone of that principal.
C24_SurfacesConsistent ==
    (lastOp.op \in Commands /\ lastOp.link # NoLink /\ lastDatagram # << >>) =>
        /\ lastOp.user # NoUser
        /\ \E d \in DOMAIN connections :
              /\ connections[d].userId = lastOp.user
              /\ connections[d].mavlinkService = lastOp.link

\* C25: a well-formed v2 frame is decoded whether or not its trailing zero
\* payload bytes were sent: after a HEARTBEAT the snapshot has the armed flag
\* and the mode of the frame, and a GLOBAL_POSITION_INT is published as a
\* position, also when the payload is shorter than the nominal length.
C25_TruncationTolerance ==
    (/\ lastOp.op = "UdpMessage"
     /\ lastOp.frame.magic = MAGIC_V2 /\ lastOp.frame.buflen >= 12 /\ lastOp.frame.crc_ok)
    => /\ lastOp.frame.msgId = MSG_HEARTBEAT =>
             /\ links[lastOp.link].armed =
                    ((lastOp.frame.base_mode \div MAV_MODE_FLAG_SAFETY_ARMED) % 2 = 1)
             /\ links[lastOp.link].mode = modeNames(lastOp.frame.custom_mode)
       /\ lastOp.frame.msgId = MSG_GLOBAL_POSITION_INT =>
             /\ droneData
             /\ \A c \in DOMAIN clients : CountType(lastSent[c], "position") = 1

\* A datagram that is a well-formed MAVLink frame: known magic, long enough,
\* checksum matching.
WellFormed(dg) ==
    /\ \/ dg.magic = MAGIC_V2 /\ dg.buflen >= 12
       \/ dg.magic = MAGIC_V1 /\ dg.buflen >= 8
    /\ dg.crc_ok

\* C26: after every received frame the stored peer is the source of that
\* frame: remoteAddress and remotePort equal its source host and port, also
\* when only the source port changed.
C26_PeerRefresh ==
    (lastOp.op = "UdpMessage" /\ WellFormed(lastOp.frame)) =>
        /\ links[lastOp.link].remoteAddress = lastOp.host
        /\ links[lastOp.link].remotePort = lastOp.port

\* C27: a datagram that is not a well-formed MAVLink frame (wrong magic, too
\* short, bad checksum) never sets or changes the stored peer.
C27_PeerOnlyFromValidFrames ==
    [][(lastOp'.op = "UdpMessage" /\ lastOp' # lastOp /\ ~WellFormed(lastOp'.frame))
       => /\ links'[lastOp'.link].remoteAddress = links[lastOp'.link].remoteAddress
          /\ links'[lastOp'.link].remotePort = links[lastOp'.link].remotePort]_vars

\* C28: every update of an active session with armed = false and altitude
\* below 2 m, altitude 0 included, derives a landing event unless one was
\* derived in the last 3 seconds: once such an update has been processed for
\* a session, a landing event has been derived for it.
C28_LandingAtZeroAltitude ==
    \A sid \in DOMAIN lastEventTimestamps : lastEventTimestamps[sid]["landing"] > 0

\* C29: every update of an active session with a battery below 20 %, 0
\* included, derives a battery_low event unless one was derived in the last 3
\* seconds: once such an update has been processed for a session, a
\* battery_low event has been derived for it.
C29_BatteryLowAtZero ==
    \A sid \in DOMAIN lastEventTimestamps : lastEventTimestamps[sid]["battery_low"] > 0

\* C30: after each decoded BATTERY_STATUS message the snapshot's battery
\* equals the battery_remaining value the message carries, -1 ("unknown")
\* included; the snapshot never lags behind the last reported value.
C30_BatterySnapshotCurrent ==
    (/\ lastOp.op = "UdpMessage"
     /\ WellFormed(lastOp.frame)
     /\ lastOp.frame.msgId = MSG_BATTERY_STATUS /\ lastOp.frame.plen >= 36)
    => links[lastOp.link].battery = lastOp.frame.battery_remaining

\* C31: after a socket error on a udp link that was connected, the link
\* eventually attempts to bind again (its socket is binding), unless a
\* disconnect or a new connect request comes first.
C31_RebindAfterSocketError ==
    (lastOp.op = "SocketError" /\ links[Singleton].connection = "listening")
        ~> \/ links[Singleton].connection = "binding"
           \/ lastOp.op \in {"RouteDisconnect", "RouteConnect"}

\* C32: events are stored in per-session order: when an updateSession call
\* writes an event, no updateSession call of the same session that started
\* earlier (it stands before it in tasks) still has events to write.
C32_PerSessionOrder ==
    [][\A i \in 1..Len(tasks) :
          (/\ tasks[i].op = "update" /\ tasks[i].pc = "write"
           /\ tasks' = afterEvent(tasks, i)
           /\ droneEvent' = Append(droneEvent,
                                   EventRow(tasks[i].sessionId, Head(tasks[i].events), now)))
          => ~\E j \in 1..(i - 1) : /\ tasks[j].op = "update"
                                     /\ tasks[j].sessionId = tasks[i].sessionId]_vars

\* C33: when the link of a drone reports a bind failure or socket error after
\* connectDrone returned true, the error is handled (the process goes on) and
\* the manager's record of the drone no longer has isConnected = true.
C33_LinkErrorReachesManager ==
    (lastOp.op = "SocketError" /\ lastOp.link \in ManagerLinks)
    => /\ ~crashed
       /\ \A d \in DOMAIN connections :
             connections[d].mavlinkService = lastOp.link => ~connections[d].isConnected

\* C34: getDroneByUserId(u) returns a record only if the record is owned by u
\* and connected, and returns nothing only if u owns no connected record.
C34_LookupOwnConnected ==
    [][(lastOp'.op = "UserDisconnect" /\ lastOp' # lastOp)
       => LET u == lastOp'.user
              d == lastOp'.drone
          IN /\ d # NoDrone => /\ d \in DOMAIN connections
                               /\ connections[d].userId = u
                               /\ connections[d].isConnected
             /\ d = NoDrone => \A x \in DOMAIN connections :
                                  ~(connections[x].userId = u /\ connections[x].isConnected)]_vars
\* The lookup returned a record although an unconnected record of the same
\* user and a connected record of another user are in the registry.
C34_Witness ==
    /\ lastOp.op = "UserDisconnect" /\ lastOp.drone # NoDrone
    /\ \E x, y \in DOMAIN connections :
          /\ connections[x].userId = lastOp.user /\ ~connections[x].isConnected
          /\ connections[y].userId # lastOp.user /\ connections[y].isConnected
          /\ \E i, j \in 1..Len(connOrder) : connOrder[i] = x /\ connOrder[j] = y

\* C35: under any interleaving of concurrent endSession calls of one session
\* the session is ended once: at most one session_ended event of the session
\* is ever written.
C35_EndedOnce ==
    \A sid \in SessionIds :
        Cardinality({i \in 1..Len(droneEvent) :
                        /\ droneEvent[i].sessionId = sid
                        /\ droneEvent[i].eventType = "session_ended"}) <= 1

\* C36: every sample passed to storeTelemetry is written exactly once when
\* storage does not fail: once nothing is buffered, no flush is awaited and no
\* timer is pending, every sample passed so far has exactly one row.
C36_EachSampleOnce ==
    (telemetryBuffer = << >> /\ flushing = << >> /\ batchTimeout # "pending")
    => \A k \in 1..(nextSample - 1) : telemetryData[k] = 1

\* C37: after disconnectDrone(d) the manager emits no telemetry event for d
\* until a later connectDrone(d): whenever a datagram makes the manager emit
\* telemetry for d, d has a record in the registry (only disconnectDrone
\* removes the record of a drone that has a link, and connectDrone needs the
\* record).
C37_SilentAfterDisconnect ==
    (lastOp.op = "UdpMessage" /\ lastOp.drone # NoDrone /\ lastOp.n > 0)
    => lastOp.drone \in DOMAIN connections

\* C38: an arm, disarm or set_mode message on a channel whose principal is u
\* is forwarded only to a record owned by u with isConnected = true, through
\* that record's link; when u has no such record the channel gets an error
\* frame and no command is sent.
C38_ChannelCommandOwnDrone ==
    (lastOp.op \in Commands /\ lastOp.ch \in Channels)
    => LET u == clients[lastOp.ch].userId
           d == lastOp.drone
           own == {x \in DOMAIN connections :
                      connections[x].userId = u /\ connections[x].isConnected}
       IN /\ d # NoDrone => /\ u # NoUser
                            /\ d \in own
                            /\ lastOp.link = connections[d].mavlinkService
                            /\ CountType(lastSent[lastOp.ch], "error") = 0
          /\ d = NoDrone => /\ lastDatagram = << >>
                            /\ lastOp.link = NoLink
                            /\ CountType(lastSent[lastOp.ch], "error") = 1
          /\ (u = NoUser \/ own = {}) => d = NoDrone
\* A command of a channel was sent on the wire to the drone of the channel's
\* user while a connected drone of another user is in the registry.
C38_Witness ==
    /\ lastOp.op \in Commands /\ lastOp.ch \in Channels
    /\ lastOp.drone # NoDrone /\ lastDatagram # << >>
    /\ \E y \in DOMAIN connections :
          connections[y].userId # lastOp.user /\ connections[y].isConnected

\* C39: /auth/verify-otp issues no reset token for a user who has not
\* requested a reset, whatever OTP is submitted: only Requester ever asks
\* for an OTP, so no verify-otp for another email is answered with a token.
C39_NoTokenWithoutRequest ==
    (lastOp.op = "verifyOtp" /\ lastOp.user # Requester) => ~lastResult

\* C40: a drone id returned by the in-memory registerDrone can be connected:
\* a connectDrone of such an id finds the drone's record (it does not fail
\* with 'not found').
C40_RegisteredCanConnect ==
    (/\ lastOp.op = "connectDrone"
     /\ \E i \in 1..Len(registered) :
           registered[i].route = "admin" /\ registered[i].droneId = lastOp.drone)
    => lastOp.link # NoLink

====
